---- MODULE Spec2Model ----
(***************************************************************************)
(* OpsDash (tiboeycken/mainframe): the Zowe CLI invoker, the domain query  *)
(* and mutation functions, the JCL generator and the job panel of          *)
(* opsdash_web.py.                                                         *)
(*                                                                         *)
(* Python values are tagged records; a text is a sequence of               *)
(* fragments (single characters where a claim counts characters), so that  *)
(* concatenation is \o; a raised exception is the value Raise(type).       *)
(***************************************************************************)
EXTENDS Integers, Sequences, FiniteSets, TLC

VARIABLES
    platform,     \* platform.system()
    install,      \* where the zowe executable is installed on this machine
    op,           \* the operation that ran last
    calls,        \* the run_zowe_cmd invocations of that operation, in order
    ret,          \* what the operation returned (or raised)
    tempFiles,    \* temporary files existing on disk
    unlinks,      \* os.unlink calls made by the operation
    panel,        \* what the job panel displays
    item,         \* a response item handed to the field extraction
    extracted,    \* the values the job table and the status panel extracted
    jclArgs,      \* arguments of the last generate_compile_jcl call
    jclOut,       \* its result
    jclAgain,     \* the result of a repeated call with the same arguments
    clock,        \* time.time(), in seconds
    cache,        \* the entries st.cache_data holds for the decorated functions
    events,       \* the calls of the decorated functions and the cache clears
    renders,      \* renders of the Datasets section so far
    browser,      \* what the Datasets section displayed in its last render, and
                  \* the diagnostics of the CLI calls that failed in it
    lineIn,       \* a source text handed to the line-ending transform
    lineOut,      \* the text written for it
    lineAgain,    \* the text written when lineOut is handed in again
    lineDone,     \* how often the transform ran on the text
    dbTable,      \* the job_history table exists in metrics.db
    rows,         \* the rows of job_history, in insertion order
    seq,          \* the largest row id the table has handed out
    dbOp,         \* the metrics-store function that ran last
    dbLimit,      \* the limit given to the last get_recent_job_history
    dbRet,        \* what the last get_recent_job_history returned
    autoRefresh,  \* the Auto-refresh checkbox of the Pi dashboard
    piRuns,       \* the runs of the Pi dashboard script so far
    pi,           \* what the last run of the Pi dashboard script did
    probe,        \* the last check_mainframe_connection and what it met
    submitted,    \* the submissions without a member name so far: when, and the upload target
    session,      \* st.session_state: the keys present, each with its value
    click,        \* what the last handler of the Editor tab did
    statusView,   \* what the last run of the Job Status tab displayed
    fresh         \* the spool contents fetched since the last check or change of their job

vars == <<platform, install, op, calls, ret, tempFiles, unlinks, panel,
          item, extracted, jclArgs, jclOut, jclAgain, clock,
          cache, events, renders, browser,
          lineIn, lineOut, lineAgain, lineDone,
          dbTable, rows, seq, dbOp, dbLimit, dbRet,
          autoRefresh, piRuns, pi, probe,
          submitted,
          session, click,
          statusView, fresh>>

cliVars == <<platform, install, op, calls, ret, tempFiles, unlinks, panel>>
fieldVars == <<item, extracted>>
jclVars == <<jclArgs, jclOut, jclAgain, clock>>
browserVars == <<cache, events, renders, browser>>
lineVars == <<lineIn, lineOut, lineAgain, lineDone>>
dbVars == <<dbTable, rows, seq, dbOp, dbLimit, dbRet>>
piVars == <<autoRefresh, piRuns, pi, probe>>
submitVars == <<submitted>>
sessionVars == <<session, click>>
statusVars == <<statusView, fresh>>

---------------------------------------------------------------------------
(* Python values: a kind t and, under a field of its own per kind, the      *)
(* payload, so that two values of different kinds never compare payloads    *)

PyNone == [t |-> "None"]
PyStr(s) == [t |-> "str", s |-> s]
PyInt(n) == [t |-> "int", n |-> n]
PyList(xs) == [t |-> "list", xs |-> xs]
PyDict(f) == [t |-> "dict", kv |-> f]
Raise(e) == [t |-> "raise", e |-> e]

IsRaise(x) == x.t = "raise"

\* bool(x)
Truthy(x) ==
    CASE x.t = "None" -> FALSE
      [] x.t = "str" -> x.s # <<>>
      [] x.t = "int" -> x.n # 0
      [] x.t = "list" -> x.xs # <<>>
      [] x.t = "dict" -> DOMAIN x.kv # {}
      [] OTHER -> TRUE

\* a or b
PyOr(a, b) == IF Truthy(a) THEN a ELSE b

\* d.get(k, default) of a dict d
DictGet(d, k, default) == IF k \in DOMAIN d.kv THEN d.kv[k] ELSE default

\* x.get(k, default): AttributeError when x is no dict
PyGet(x, k, default) ==
    IF x.t = "dict" THEN DictGet(x, k, default) ELSE Raise("AttributeError")

\* s is a contiguous part of text
IsSubText(s, text) ==
    \E i \in 0..(Len(text) - Len(s)) : SubSeq(text, i + 1, i + Len(s)) = s

\* "error" in x
InError(x) ==
    CASE x.t = "dict" -> "error" \in DOMAIN x.kv
      [] x.t = "list" -> \E i \in 1..Len(x.xs) : x.xs[i] = PyStr(<<"error">>)
      [] x.t = "str" -> IsSubText(<<"error">>, x.s)
      [] OTHER -> FALSE

\* "error" in x raises TypeError for a value that is no container
InErrorRaises(x) == x.t \in {"None", "int"}

ErrorObject(msg) == PyDict([error |-> PyStr(msg)])

IsErrorObject(x) == x.t = "dict" /\ "error" \in DOMAIN x.kv

---------------------------------------------------------------------------
(* The machine the dashboard runs on, and the zowe child process *)

Platforms == {"Linux", "Windows"}

\* "path": zowe is on PATH; "path_cmd": only zowe.cmd is on PATH;
\* "npm": zowe.cmd lies in an npm global directory that is not on PATH;
\* "none": Zowe CLI is not installed
Installs == {"path", "path_cmd", "npm", "none"}

FallbackName == <<"zowe">>

Whitespace == {" ", "\n", "\r", "\t"}

\* the JSON documents the CLI prints with --rfj (abridged to the keys the
\* dashboard reads), and texts that are no JSON
DocJobsEmpty == "{\"data\": []}"
DocJobs == "{\"data\": [{\"jobname\": \"MYPROG\", \"jobid\": \"JOB00123\", \"status\": \"OUTPUT\", \"retcode\": \"CC 0000\"}, {\"jobName\": \"OTHER\", \"jobId\": \"JOB00124\", \"status\": \"ACTIVE\", \"retcode\": null}]}"
DocItems == "{\"data\": {\"apiResponse\": {\"items\": [{\"dsname\": \"Z83570.SOURCE\", \"member\": \"MYPROG\"}, {\"name\": \"Z83570.LOAD\", \"memberName\": \"HELLO\"}]}}}"
DocSubmit == "{\"stdout\": \"\", \"data\": {\"jobid\": \"JOB00123\", \"jobname\": \"MYPROG\", \"status\": \"INPUT\", \"retcode\": null}}"
DocSpool == "{\"stdout\": \"HELLO FROM COBOL\", \"data\": {}}"
DocSpoolFiles == "{\"data\": [{\"id\": 2, \"ddname\": \"JESMSGLG\"}, {\"id\": 3, \"ddname\": \"SYSOUT\"}]}"
DocSpoolMany == "{\"data\": [{\"id\": 2, \"ddname\": \"JESMSGLG\"}, {\"id\": 3, \"ddname\": \"JESJCL\"}, {\"id\": 4, \"ddname\": \"JESYSMSG\"}, {\"id\": 101, \"ddname\": \"SYSPRINT\"}, {\"id\": 102, \"ddname\": \"SYSLIN\"}, {\"id\": 103, \"ddname\": \"SYSOUT\"}]}"
DocArray == "[]"
DocNumber == "5"
DocDataNull == "{\"data\": null}"
DocUsage == "Usage: zowe <group>"
DocCut == "{\"data\": ["

Job1 ==
    PyDict([jobname |-> PyStr(<<"MYPROG">>), jobid |-> PyStr(<<"JOB00123">>),
            status |-> PyStr(<<"OUTPUT">>), retcode |-> PyStr(<<"CC 0000">>)])
Job2 ==
    PyDict([jobName |-> PyStr(<<"OTHER">>), jobId |-> PyStr(<<"JOB00124">>),
            status |-> PyStr(<<"ACTIVE">>), retcode |-> PyNone])
Item1 ==
    PyDict([dsname |-> PyStr(<<"Z83570.SOURCE">>), member |-> PyStr(<<"MYPROG">>)])
Item2 ==
    PyDict([name |-> PyStr(<<"Z83570.LOAD">>), memberName |-> PyStr(<<"HELLO">>)])

\* an entry of a spool file list
SpoolFile(id, ddname) == PyDict([id |-> PyInt(id), ddname |-> PyStr(<<ddname>>)])

\* json.loads(text): the parsed value, or JSONDecodeError
json_loads(text) ==
    CASE text = <<DocJobsEmpty>> -> PyDict([data |-> PyList(<<>>)])
      [] text = <<DocJobs>> -> PyDict([data |-> PyList(<<Job1, Job2>>)])
      [] text = <<DocItems>> ->
            PyDict([data |-> PyDict([apiResponse |->
                PyDict([items |-> PyList(<<Item1, Item2>>)])])])
      [] text = <<DocSubmit>> ->
            PyDict([stdout |-> PyStr(<<>>),
                    data |-> PyDict([jobid |-> PyStr(<<"JOB00123">>),
                                     jobname |-> PyStr(<<"MYPROG">>),
                                     status |-> PyStr(<<"INPUT">>),
                                     retcode |-> PyNone])])
      [] text = <<DocSpool>> ->
            PyDict([stdout |-> PyStr(<<"HELLO FROM COBOL">>),
                    data |-> PyDict(<<>>)])
      [] text = <<DocSpoolFiles>> ->
            PyDict([data |-> PyList(<<SpoolFile(2, "JESMSGLG"), SpoolFile(3, "SYSOUT")>>)])
      [] text = <<DocSpoolMany>> ->
            PyDict([data |-> PyList(<<SpoolFile(2, "JESMSGLG"), SpoolFile(3, "JESJCL"),
                                      SpoolFile(4, "JESYSMSG"), SpoolFile(101, "SYSPRINT"),
                                      SpoolFile(102, "SYSLIN"), SpoolFile(103, "SYSOUT")>>)])
      [] text = <<DocArray>> -> PyList(<<>>)
      [] text = <<DocNumber>> -> PyInt(5)
      [] text = <<DocDataNull>> -> PyDict([data |-> PyNone])
      [] OTHER -> Raise("JSONDecodeError")

\* what the child process writes to stdout and stderr
Stdouts ==
    { <<>>, <<" ", "\n">>, <<DocUsage, "\n">>, <<DocCut>>,
      <<DocJobsEmpty, "\n">>, <<DocJobs, "\n">>, <<DocItems, "\n">>,
      <<DocSubmit, "\n">>, <<DocSpool, "\n">>, <<DocArray, "\n">>,
      <<DocNumber, "\n">>, <<DocDataNull, "\n">> }

Stderrs == { <<>>, <<"Command Error: ", "z/OSMF REST API Error">> }

ShellNotFound ==
    <<"'zowe' is not recognized as an internal or external command,\n",
      "operable program or batch file.\n">>

\* how a started zowe process behaves
\* (a failing command prints its diagnostics, a usage text or nothing)
ProcBehaviours ==
    [kind : {"completed"}, returncode : {0}, stdout : Stdouts, stderr : {<<>>}]
    \cup
    [kind : {"completed"}, returncode : {1},
     stdout : {<<>>, <<DocUsage, "\n">>, <<DocDataNull, "\n">>}, stderr : Stderrs]
    \cup
    [kind : {"TimeoutExpired", "PermissionError"}, returncode : {0},
     stdout : {<<>>}, stderr : {<<>>}]

\* str.strip()
RECURSIVE lstrip(_)
lstrip(s) == IF s # <<>> /\ Head(s) \in Whitespace THEN lstrip(Tail(s)) ELSE s

RECURSIVE rstrip(_)
rstrip(s) ==
    IF s # <<>> /\ s[Len(s)] \in Whitespace
    THEN rstrip(SubSeq(s, 1, Len(s) - 1))
    ELSE s

strip(s) == rstrip(lstrip(s))

\* s[:n]
Prefix(s, n) == SubSeq(s, 1, IF Len(s) < n THEN Len(s) ELSE n)

---------------------------------------------------------------------------
(* The CLI invoker *)

\* find_zowe_executable()
find_zowe_executable ==
    IF install = "path" THEN <<"PATH/zowe">>
    ELSE IF platform = "Windows" /\ install = "path_cmd" THEN <<"PATH/zowe.cmd">>
    ELSE IF platform = "Windows" /\ install = "npm" THEN <<"APPDATA/npm/zowe.cmd">>
    ELSE FallbackName

\* the external executable cannot be found on this machine
ExecutableMissing == find_zowe_executable = FallbackName

\* subprocess.run(cmd_list, capture_output=True, text=True, timeout=30,
\* shell=use_shell): a CompletedProcess or the exception raised.  Without a
\* shell a missing executable raises FileNotFoundError; with shell=True the
\* shell itself starts, fails to find the command, and exits non-zero.
subprocess_run(argv, use_shell, proc) ==
    IF argv[1] = FallbackName /\ ExecutableMissing
    THEN IF use_shell
         THEN [kind |-> "completed", returncode |-> 1, stdout |-> <<>>,
               stderr |-> ShellNotFound]
         ELSE [kind |-> "FileNotFoundError", returncode |-> 0, stdout |-> <<>>,
               stderr |-> <<>>]
    ELSE proc

InstallGuidance ==
    <<"Zowe CLI not found. Please install Zowe CLI and ensure it's in your PATH.\n",
      "Install via: npm install -g @zowe/cli\n",
      "Or download from: https://www.zowe.org/cli.html\n",
      "Then verify with: zowe --version\n\n">>

InvalidJsonPrefix == 200

\* the body of the try statement of run_zowe_cmd: the value returned, or the
\* exception raised in it
TryBody(result) ==
    IF result.kind # "completed" THEN Raise(result.kind)
    ELSE IF result.returncode # 0
    THEN ErrorObject(PyOr(PyStr(result.stderr), PyStr(result.stdout)).s)
    ELSE LET output == strip(result.stdout) IN
         IF output = <<>>
         THEN ErrorObject(<<"Empty response from Zowe CLI">>)
         ELSE json_loads(output)

\* ExceptClauses without "except json.JSONDecodeError" and "except Exception"
ExceptClausesSubprocessOnly(x, zowe_exe, result) ==
    IF ~IsRaise(x) THEN x
    ELSE CASE x.e = "FileNotFoundError" ->
                ErrorObject(InstallGuidance \o <<"Python tried to find: ">> \o zowe_exe)
           [] x.e = "TimeoutExpired" -> ErrorObject(<<"Command timed out">>)
           [] OTHER -> x

\* the except clauses of run_zowe_cmd
ExceptClauses(x, zowe_exe, result) ==
    IF ~IsRaise(x) THEN x
    ELSE CASE x.e = "FileNotFoundError" ->
                ErrorObject(InstallGuidance \o <<"Python tried to find: ">> \o zowe_exe)
           [] x.e = "TimeoutExpired" -> ErrorObject(<<"Command timed out">>)
           [] x.e = "JSONDecodeError" ->
                ErrorObject(<<"Invalid JSON: ">> \o Prefix(result.stdout, InvalidJsonPrefix))
           [] OTHER -> ErrorObject(<<"str(", x.e, ")">>)

\* run_zowe_cmd calling subprocess.run a second time after a timeout
RunZoweCmdRetrying(cmd_list, proc) ==
    LET zowe_exe == find_zowe_executable
        argv == IF cmd_list[1] = <<"zowe">>
                THEN <<zowe_exe>> \o Tail(cmd_list)
                ELSE cmd_list
        use_shell == platform = "Windows"
        result == subprocess_run(argv, use_shell, proc)
    IN [cmd |-> cmd_list,
        argv |-> argv,
        outcome |-> result,
        spawned |-> IF result.kind \in {"FileNotFoundError", "PermissionError"}
                    THEN 0
                    ELSE IF result.kind = "TimeoutExpired" THEN 2 ELSE 1,
        result |-> ExceptClauses(TryBody(result), zowe_exe, result)]

\* run_zowe_cmd(cmd_list): the invocation with its argument vector, the
\* outcome of subprocess.run, the number of child processes started and the
\* value returned
run_zowe_cmd(cmd_list, proc) ==
    LET zowe_exe == find_zowe_executable
        argv == IF cmd_list[1] = <<"zowe">>
                THEN <<zowe_exe>> \o Tail(cmd_list)
                ELSE cmd_list
        use_shell == platform = "Windows"
        result == subprocess_run(argv, use_shell, proc)
    IN [cmd |-> cmd_list,
        argv |-> argv,
        outcome |-> result,
        spawned |-> IF result.kind \in {"FileNotFoundError", "PermissionError"}
                    THEN 0 ELSE 1,
        result |-> ExceptClauses(TryBody(result), zowe_exe, result)]

\* ["zowe", ...literal words]
Words(ws) == [i \in DOMAIN ws |-> <<ws[i]>>]

---------------------------------------------------------------------------
(* Domain query functions.  Each returns [ret, calls]: the value returned   *)
(* (or the exception raised) and the run_zowe_cmd invocations made.         *)

\* x.get(k, default) where the evaluation of x may have raised
ThenGet(x, k, default) == IF IsRaise(x) THEN x ELSE PyGet(x, k, default)

\* a or b, where a may have raised (b is evaluated only when a is falsy)
ThenOr(a, b) == IF IsRaise(a) THEN a ELSE IF Truthy(a) THEN a ELSE b

EmptyStr == PyStr(<<>>)
EmptyDict == PyDict(<<>>)
EmptyList == PyList(<<>>)

\* str(x)
StrOf(x) ==
    CASE x.t = "str" -> x
      [] x.t = "None" -> PyStr(<<"None">>)
      [] x.t = "int" -> PyStr(<<"int:", ToString(x.n)>>)
      [] x = EmptyDict -> PyStr(<<"{}">>)
      [] x = EmptyList -> PyStr(<<"[]">>)
      [] OTHER -> PyStr(<<"repr(", x.t, ")">>)

\* the loop "for item in items: v = item.get(a) or item.get(b); if v: append"
\* over a list, from position i on
RECURSIVE CollectFrom(_, _, _, _, _)
CollectFrom(xs, i, a, b, acc) ==
    IF i > Len(xs) THEN PyList(acc)
    ELSE LET v == ThenOr(PyGet(xs[i], a, PyNone), PyGet(xs[i], b, PyNone)) IN
         IF IsRaise(v) THEN v
         ELSE CollectFrom(xs, i + 1, a, b, IF Truthy(v) THEN Append(acc, v) ELSE acc)

\* the same loop over whatever items is: None and numbers are not iterable,
\* the elements of a non-empty text or dict are texts, which have no get
Collect(items, a, b) ==
    CASE IsRaise(items) -> items
      [] items.t = "list" -> CollectFrom(items.xs, 1, a, b, <<>>)
      [] items.t \in {"None", "int"} -> Raise("TypeError")
      [] OTHER -> IF Truthy(items) THEN Raise("AttributeError") ELSE EmptyList

\* the body shared by get_datasets and get_pds_members after the error test
ListItems(data, a, b) ==
    LET api == ThenGet(PyGet(data, "data", EmptyDict), "apiResponse", EmptyDict)
        items == ThenGet(api, "items", EmptyList)
    IN Collect(items, a, b)

get_user_jobs(user, proc) ==
    LET c == run_zowe_cmd(Words(<<"zowe", "zos-jobs", "list", "jobs", "--owner">>)
                          \o <<user>> \o Words(<<"--rfj">>), proc)
        data == c.result
        jobs == PyGet(data, "data", EmptyList)
    IN [calls |-> <<c>>,
        ret |-> IF IsRaise(data) THEN data
                ELSE IF InErrorRaises(data) THEN Raise("TypeError")
                ELSE IF InError(data) THEN data
                ELSE IF IsRaise(jobs) THEN jobs
                ELSE IF jobs.t = "list" THEN jobs
                ELSE EmptyList]

get_datasets(hlq, proc) ==
    LET c == run_zowe_cmd(Words(<<"zowe", "zos-files", "list", "data-set">>)
                          \o <<hlq \o <<".*">> >> \o Words(<<"--rfj">>), proc)
        data == c.result
    IN [calls |-> <<c>>,
        ret |-> IF IsRaise(data) THEN data
                ELSE IF InErrorRaises(data) THEN Raise("TypeError")
                ELSE IF InError(data) THEN data
                ELSE ListItems(data, "dsname", "name")]

get_pds_members(pds_name, proc) ==
    LET c == run_zowe_cmd(Words(<<"zowe", "zos-files", "list", "all-members">>)
                          \o <<pds_name>> \o Words(<<"--rfj">>), proc)
        data == c.result
    IN [calls |-> <<c>>,
        ret |-> IF IsRaise(data) THEN data
                ELSE IF InErrorRaises(data) THEN Raise("TypeError")
                ELSE IF InError(data) THEN EmptyList
                ELSE ListItems(data, "member", "memberName")]

get_job_status(job_id, proc) ==
    LET c == run_zowe_cmd(Words(<<"zowe", "zos-jobs", "view", "job-status-by-jobid">>)
                          \o <<job_id>> \o Words(<<"--rfj">>), proc)
    IN [calls |-> <<c>>, ret |-> c.result]

get_job_spool_files(job_id, proc) ==
    LET c == run_zowe_cmd(Words(<<"zowe", "zos-jobs", "list", "spool-files-by-jobid">>)
                          \o <<job_id>> \o Words(<<"--rfj">>), proc)
    IN [calls |-> <<c>>, ret |-> c.result]

\* lines 304-309 of get_job_spool_file_content, for a result without error
SpoolContent(result) ==
    LET first == ThenOr(PyGet(result, "stdout", EmptyStr),
                        ThenGet(PyGet(result, "data", EmptyDict), "stdout", EmptyStr))
        data == PyGet(result, "data", PyNone)
        other == ThenOr(ThenGet(PyGet(result, "data", EmptyDict), "content", EmptyStr),
                        StrOf(PyGet(result, "data", EmptyDict)))
        content == IF IsRaise(first) THEN first
                   ELSE IF ~Truthy(first) /\ data.t = "dict" THEN other
                   ELSE first
    IN IF IsRaise(content) THEN content
       ELSE PyDict([content |-> content, raw |-> result])

get_job_spool_file_content(job_id, spool_id, proc) ==
    LET c == run_zowe_cmd(Words(<<"zowe", "zos-jobs", "view", "spool-file-by-id">>)
                          \o <<job_id, StrOf(spool_id).s>> \o Words(<<"--rfj">>), proc)
        result == c.result
    IN [calls |-> <<c>>,
        ret |-> IF IsRaise(result) THEN result
                ELSE IF InErrorRaises(result) THEN Raise("TypeError")
                ELSE IF InError(result) THEN result
                ELSE SpoolContent(result)]

---------------------------------------------------------------------------
(* Mutation functions.  A source text is a sequence of characters; CR and   *)
(* LF are the characters "\r" and "\n", Surrogate is a lone surrogate code  *)
(* point, which UTF-8 cannot encode.                                        *)

CR == "\r"
LF == "\n"
Surrogate == "U+D800"

\* s.replace('\r\n', '\n')
RECURSIVE ReplaceCRLF(_)
ReplaceCRLF(s) ==
    IF s = <<>> THEN <<>>
    ELSE IF Len(s) >= 2 /\ s[1] = CR /\ s[2] = LF
    THEN <<LF>> \o ReplaceCRLF(SubSeq(s, 3, Len(s)))
    ELSE <<Head(s)>> \o ReplaceCRLF(Tail(s))

\* s.replace('\r', '\n')
ReplaceCR(s) == [i \in DOMAIN s |-> IF s[i] = CR THEN LF ELSE s[i]]

\* s.replace('\n', '\r\n')
RECURSIVE ReplaceLF(_)
ReplaceLF(s) ==
    IF s = <<>> THEN <<>>
    ELSE IF Head(s) = LF THEN <<CR, LF>> \o ReplaceLF(Tail(s))
    ELSE <<Head(s)>> \o ReplaceLF(Tail(s))

\* the transform without its first step, replace('\r\n', '\n')
ToCRLFWithoutPairs(content) == ReplaceLF(ReplaceCR(content))

\* the line-ending transform of upload_cobol_to_dataset
ToCRLF(content) == ReplaceLF(ReplaceCR(ReplaceCRLF(content)))

\* the line-ending transform of submit_jcl_job
ToLF(content) == ReplaceCR(ReplaceCRLF(content))

\* text.encode('utf-8'), also what a text-mode file with encoding='utf-8'
\* does on write
EncodeUtf8(text) ==
    IF \E i \in DOMAIN text : text[i] = Surrogate
    THEN Raise("UnicodeEncodeError")
    ELSE [t |-> "bytes", bytes |-> text]

TempCbl == "tmp.cbl"
TempJcl == "tmp.jcl"

\* the with statement that creates the temporary file (delete=False) and
\* writes to it: the exception raised in it, or PyNone when it completes
WriteTemp(encoded, diskFull) ==
    IF IsRaise(encoded) THEN encoded
    ELSE IF diskFull THEN Raise("OSError")
    ELSE PyNone

\* finally: if os.path.exists(temp_path): os.unlink(temp_path)
CleanUp(fs, temp_path) ==
    IF temp_path \in fs.files
    THEN [files |-> fs.files \ {temp_path}, unlinks |-> fs.unlinks + 1]
    ELSE fs

\* upload_cobol_to_dataset(dsname, member, content, user_id): [ret, calls] and
\* fs, the temporary files left on disk with the number of unlink calls
upload_cobol_to_dataset(dsname, member, content, diskFull, proc) ==
    LET created == [files |-> {TempCbl}, unlinks |-> 0]
        written == WriteTemp(EncodeUtf8(ToCRLF(content)), diskFull)
        c == run_zowe_cmd(Words(<<"zowe", "zos-files", "upload", "file-to-data-set">>)
                          \o << <<TempCbl>>, dsname \o <<"(">> \o member \o <<")">> >>
                          \o Words(<<"--rfj">>), proc)
    IN IF IsRaise(written)
       THEN [ret |-> written, calls |-> <<>>, fs |-> created]
       ELSE [ret |-> c.result, calls |-> <<c>>, fs |-> CleanUp(created, TempCbl)]

Digits == <<"0", "1", "2", "3", "4", "5", "6", "7", "8", "9">>

\* f"{n:04d}"
RECURSIVE Decimal(_)
Decimal(n) == IF n < 10 THEN <<Digits[n + 1]>>
              ELSE Decimal(n \div 10) \o <<Digits[(n % 10) + 1]>>

RECURSIVE ZeroFill(_, _)
ZeroFill(s, width) == IF Len(s) >= width THEN s ELSE ZeroFill(<<"0">> \o s, width)

MemberNameLen == 8
TimeModulus == 10000
TimeDigits == 4

\* f"TEMP{int(time.time()) % 10000:04d}"[:8]
TempMemberName(now) ==
    Prefix(<<"T", "E", "M", "P">> \o ZeroFill(Decimal(now % TimeModulus), TimeDigits),
           MemberNameLen)

\* SubmitSteps without "if "error" in upload_result: return upload_result"
SubmitStepsAlways(upload, submit) ==
    [ret |-> submit.result, calls |-> <<upload, submit>>]

\* the statements of submit_jcl_job inside try, given the upload's outcome:
\* the submit command runs only when the upload returned no error
SubmitSteps(upload, submit) ==
    IF IsRaise(upload.result) THEN [ret |-> upload.result, calls |-> <<upload>>]
    ELSE IF InErrorRaises(upload.result)
    THEN [ret |-> Raise("TypeError"), calls |-> <<upload>>]
    ELSE IF InError(upload.result)
    THEN [ret |-> upload.result, calls |-> <<upload>>]
    ELSE [ret |-> submit.result, calls |-> <<upload, submit>>]

\* submit_jcl_job(jcl_content, user_id, jcl_member_name), called at time now;
\* an absent jcl_member_name is <<>>
submit_jcl_job(jcl_content, user_id, jcl_member_name, now, diskFull, proc1, proc2) ==
    LET member == IF jcl_member_name = <<>> THEN TempMemberName(now)
                  ELSE jcl_member_name
        created == [files |-> {TempJcl}, unlinks |-> 0]
        written == WriteTemp(EncodeUtf8(ToLF(jcl_content)), diskFull)
        target == user_id \o <<".JCL">> \o <<"(">> \o member \o <<")">>
        upload == run_zowe_cmd(Words(<<"zowe", "zos-files", "upload", "file-to-data-set">>)
                               \o << <<TempJcl>>, target >> \o Words(<<"--rfj">>), proc1)
        submit == run_zowe_cmd(Words(<<"zowe", "zos-jobs", "submit", "data-set">>)
                               \o << target >> \o Words(<<"--rfj">>), proc2)
        done == SubmitSteps(upload, submit)
    IN IF IsRaise(written)
       THEN [ret |-> written, calls |-> <<>>, fs |-> created]
       ELSE [ret |-> done.ret, calls |-> done.calls, fs |-> CleanUp(created, TempJcl)]

---------------------------------------------------------------------------
(* Field extraction in the job table and in the job-status panel *)

NotShown == [t |-> "n/a"]

\* job.get("jobname") or job.get("jobName", "")
TableJobName(job) ==
    ThenOr(PyGet(job, "jobname", PyNone), PyGet(job, "jobName", EmptyStr))

\* job.get("jobid") or job.get("jobId", "")
TableJobId(job) ==
    ThenOr(PyGet(job, "jobid", PyNone), PyGet(job, "jobId", EmptyStr))

\* str(job.get("retcode") or job.get("retCode") or "-")
TableReturnCode(job) ==
    LET rc == ThenOr(ThenOr(PyGet(job, "retcode", PyNone),
                            PyGet(job, "retCode", PyNone)), PyStr(<<"-">>))
    IN IF IsRaise(rc) THEN rc ELSE StrOf(rc)

\* job_data.get('jobname', job_data.get('jobName', 'N/A'))
StatusJobName(job_data) ==
    PyGet(job_data, "jobname", PyGet(job_data, "jobName", PyStr(<<"N/A">>)))

\* str(job_data.get('retcode', job_data.get('retCode', 'N/A')))
StatusReturnCode(job_data) ==
    LET rc == PyGet(job_data, "retcode", PyGet(job_data, "retCode", PyStr(<<"N/A">>)))
    IN IF IsRaise(rc) THEN rc ELSE StrOf(rc)

\* one row of the job table
JobTableRow(job) ==
    LET name == TableJobName(job)
        id == TableJobId(job)
        status == PyGet(job, "status", EmptyStr)
        rc == TableReturnCode(job)
    IN IF IsRaise(name) THEN name
       ELSE PyDict([JobName |-> name, JobID |-> id, Status |-> status,
                    ReturnCode |-> rc])

RECURSIVE JobTableFrom(_, _, _)
JobTableFrom(jobs, i, acc) ==
    IF i > Len(jobs) THEN PyList(acc)
    ELSE LET row == JobTableRow(jobs[i]) IN
         IF IsRaise(row) THEN row ELSE JobTableFrom(jobs, i + 1, Append(acc, row))

NoPanel == [kind |-> "none", text |-> <<>>, rows |-> EmptyList]

\* the JES Jobs section of main, given what get_user_jobs returned
JobPanel(jobs) ==
    IF IsRaise(jobs)
    THEN [kind |-> "exception", text |-> <<jobs.e>>, rows |-> EmptyList]
    ELSE IF jobs.t = "dict" /\ "error" \in DOMAIN jobs.kv
    THEN [kind |-> "error",
          text |-> <<"Error retrieving jobs: ">> \o StrOf(jobs.kv["error"]).s,
          rows |-> EmptyList]
    ELSE IF ~Truthy(jobs)
    THEN [kind |-> "info", text |-> <<"No jobs found for this user.">>,
          rows |-> EmptyList]
    ELSE LET table == IF jobs.t = "list" THEN JobTableFrom(jobs.xs, 1, <<>>)
                      ELSE Raise("AttributeError")
         IN IF IsRaise(table)
            THEN [kind |-> "exception", text |-> <<table.e>>, rows |-> EmptyList]
            ELSE [kind |-> "table", text |-> <<"Job Details">>, rows |-> table]

---------------------------------------------------------------------------
(* The operations, each called from an idle session *)

UserId == <<"Z83570">>
SourceDs == <<"Z83570", ".SOURCE">>
ProgramName == <<"M", "Y", "P", "R", "O", "G">>
JobId == <<"JOB00123">>
SpoolIds == {PyInt(2), PyStr(<<"JESMSGLG">>)}
Sources == { <<"A", LF, "B", CR, LF, "C", CR>>, <<"A", Surrogate, LF>> }
MemberNames == { <<>>, <<"R", "U", "N", "J", "C", "L">> }
Times == {1699999999, 1700012345}

IdleItem == EmptyDict
IdleExtracted == [field |-> "none", listing |-> NotShown, table |-> NotShown,
                  status |-> NotShown]
IdleJcl == [program_name |-> <<>>, source_ds |-> <<>>, load_ds |-> <<>>,
            user_id |-> <<>>]

\* the value of a key that is not in a dictionary
Absent == [t |-> "absent"]

NoClick ==
    [kind |-> "none", steps |-> <<>>, calls |-> <<>>, raised |-> "", rerun |-> FALSE,
     job_before |-> Absent, program_before |-> Absent]

NoView ==
    [job_id |-> <<>>, pressed |-> <<>>, checked |-> FALSE, earlier |-> Absent,
     shown |-> <<>>, contents |-> {}, buttons |-> {}, invoked |-> 0]

\* the Job Status tab has not run
StatusInit ==
    /\ statusView = NoView
    /\ fresh = {}

\* a new session: st.session_state is empty
SessionInit ==
    /\ session = <<>>
    /\ click = NoClick

\* nothing has been submitted
SubmitInit == submitted = <<>>

NoHistory == [kind |-> "none", rows |-> <<>>]

\* no run of the Pi dashboard script yet: the checkbox has its default
PiInit ==
    /\ autoRefresh = FALSE
    /\ piRuns = 0
    /\ pi = [connection |-> "n/a", slept |-> 0, rerun |-> FALSE,
             history |-> NoHistory, fetched |-> 0, panel |-> NoPanel,
             datasets |-> <<>>, analytics |-> NoHistory]
    /\ probe = [done |-> FALSE, outcome |-> "none", returncode |-> 0,
                spawned |-> 0, timeout |-> 0, ret |-> FALSE]

\* before the Pi dashboard first runs there is no metrics.db
DbInit ==
    /\ dbTable = FALSE
    /\ rows = <<>>
    /\ seq = 0
    /\ dbOp = "none"
    /\ dbLimit = 0
    /\ dbRet = <<>>

\* no text has been handed to the line-ending transform
LineInit ==
    /\ lineIn = <<>>
    /\ lineOut = <<>>
    /\ lineAgain = <<>>
    /\ lineDone = 0

\* the session before the Datasets section was rendered: nothing cached
BrowserInit ==
    /\ cache = {}
    /\ events = <<>>
    /\ renders = 0
    /\ browser = [shown |-> <<>>, failed |-> <<>>]

Finish(name, r, fs, shown) ==
    /\ op' = name
    /\ calls' = r.calls
    /\ ret' = r.ret
    /\ tempFiles' = fs.files
    /\ unlinks' = fs.unlinks
    /\ panel' = shown
    /\ UNCHANGED <<platform, install, fieldVars, jclVars, browserVars, lineVars, dbVars, piVars, submitVars, sessionVars, statusVars>>

NoFiles == [files |-> {}, unlinks |-> 0]

GetUserJobs ==
    /\ op = "idle"
    /\ \E proc \in ProcBehaviours :
           Finish("get_user_jobs", get_user_jobs(UserId, proc), NoFiles, NoPanel)

GetDatasets ==
    /\ op = "idle"
    /\ \E proc \in ProcBehaviours :
           Finish("get_datasets", get_datasets(UserId, proc), NoFiles, NoPanel)

GetPdsMembers ==
    /\ op = "idle"
    /\ \E proc \in ProcBehaviours :
           Finish("get_pds_members", get_pds_members(SourceDs, proc), NoFiles, NoPanel)

GetJobStatus ==
    /\ op = "idle"
    /\ \E proc \in ProcBehaviours :
           Finish("get_job_status", get_job_status(JobId, proc), NoFiles, NoPanel)

GetJobSpoolFiles ==
    /\ op = "idle"
    /\ \E proc \in ProcBehaviours :
           Finish("get_job_spool_files", get_job_spool_files(JobId, proc), NoFiles, NoPanel)

GetJobSpoolFileContent ==
    /\ op = "idle"
    /\ \E proc \in ProcBehaviours, spool_id \in SpoolIds :
           Finish("get_job_spool_file_content",
                  get_job_spool_file_content(JobId, spool_id, proc), NoFiles, NoPanel)

UploadCobol ==
    /\ op = "idle"
    /\ \E proc \in ProcBehaviours, content \in Sources, diskFull \in BOOLEAN :
           LET r == upload_cobol_to_dataset(SourceDs, ProgramName, content, diskFull, proc)
           IN Finish("upload_cobol_to_dataset", r, r.fs, NoPanel)

SubmitJcl ==
    /\ op = "idle"
    /\ \E proc1 \in ProcBehaviours, proc2 \in ProcBehaviours, content \in Sources,
          diskFull \in BOOLEAN, member \in MemberNames, now \in Times :
           LET r == submit_jcl_job(content, UserId, member, now, diskFull, proc1, proc2)
           IN Finish("submit_jcl_job", r, r.fs, NoPanel)

\* the JES Jobs section of one render of main
RenderJobs ==
    /\ op = "idle"
    /\ \E proc \in ProcBehaviours :
           LET r == get_user_jobs(UserId, proc)
           IN Finish("main.jobs", r, NoFiles, JobPanel(r.ret))

\* the caller takes the result; the session is idle again
Return ==
    /\ op # "idle"
    /\ op' = "idle"
    /\ calls' = <<>>
    /\ ret' = PyNone
    /\ tempFiles' = {}
    /\ unlinks' = 0
    /\ panel' = NoPanel
    /\ UNCHANGED <<platform, install, fieldVars, jclVars, browserVars, lineVars, dbVars, piVars, submitVars, sessionVars, statusVars>>

Init ==
    /\ platform \in Platforms
    /\ install \in Installs
    /\ op = "idle"
    /\ calls = <<>>
    /\ ret = PyNone
    /\ tempFiles = {}
    /\ unlinks = 0
    /\ panel = NoPanel
    /\ item = IdleItem
    /\ extracted = IdleExtracted
    /\ jclArgs = IdleJcl
    /\ jclOut = <<>>
    /\ jclAgain = <<>>
    /\ clock = 0
    /\ BrowserInit
    /\ LineInit
    /\ DbInit
    /\ PiInit
    /\ SubmitInit
    /\ SessionInit
    /\ StatusInit

Next ==
    \/ GetUserJobs
    \/ GetDatasets
    \/ GetPdsMembers
    \/ GetJobStatus
    \/ GetJobSpoolFiles
    \/ GetJobSpoolFileContent
    \/ UploadCobol
    \/ SubmitJcl
    \/ RenderJobs
    \/ Return

Spec == Init /\ [][Next]_vars

---------------------------------------------------------------------------
(* Field extraction on its own: a response item carries a field under its  *)
(* first spelling, its second spelling, both or neither; the value under a *)
(* spelling is a text, the empty text or null.                             *)

FieldValues == {PyNone, EmptyStr, PyStr(<<"V">>), PyStr(<<"W">>)}

\* the items with keys among a and b
ItemsWith(a, b) ==
    UNION { {PyDict(f) : f \in [keys -> FieldValues]} : keys \in SUBSET {a, b} }

Extract(name, d, listing, table, status) ==
    /\ item' = d
    /\ extracted' = [field |-> name, listing |-> listing, table |-> table,
                     status |-> status]
    /\ UNCHANGED <<cliVars, jclVars, browserVars, lineVars, dbVars, piVars, submitVars, sessionVars, statusVars>>

\* get_datasets on a response with the one item d
ExtractDatasetName ==
    /\ op = "idle"
    /\ \E d \in ItemsWith("dsname", "name") :
           Extract("dataset name", d, Collect(PyList(<<d>>), "dsname", "name"),
                   NotShown, NotShown)

\* get_pds_members on a response with the one item d
ExtractMember ==
    /\ op = "idle"
    /\ \E d \in ItemsWith("member", "memberName") :
           Extract("member", d, Collect(PyList(<<d>>), "member", "memberName"),
                   NotShown, NotShown)

\* the job table and the status panel on the job d
ExtractJobName ==
    /\ op = "idle"
    /\ \E d \in ItemsWith("jobname", "jobName") :
           Extract("job name", d, NotShown, TableJobName(d), StatusJobName(d))

ExtractJobId ==
    /\ op = "idle"
    /\ \E d \in ItemsWith("jobid", "jobId") :
           Extract("job id", d, NotShown, TableJobId(d), NotShown)

ExtractReturnCode ==
    /\ op = "idle"
    /\ \E d \in ItemsWith("retcode", "retCode") :
           Extract("return code", d, NotShown, TableReturnCode(d), StatusReturnCode(d))

FieldInit ==
    /\ platform = "Linux"
    /\ install = "path"
    /\ op = "idle"
    /\ calls = <<>>
    /\ ret = PyNone
    /\ tempFiles = {}
    /\ unlinks = 0
    /\ panel = NoPanel
    /\ item = IdleItem
    /\ extracted = IdleExtracted
    /\ jclArgs = IdleJcl
    /\ jclOut = <<>>
    /\ jclAgain = <<>>
    /\ clock = 0
    /\ BrowserInit
    /\ LineInit
    /\ DbInit
    /\ PiInit
    /\ SubmitInit
    /\ SessionInit
    /\ StatusInit

FieldNext ==
    \/ ExtractDatasetName
    \/ ExtractMember
    \/ ExtractJobName
    \/ ExtractJobId
    \/ ExtractReturnCode

FieldSpec == FieldInit /\ [][FieldNext]_vars

---------------------------------------------------------------------------
(* The JCL generator.  Names are sequences of characters; the fixed parts  *)
(* of a line are single fragments.                                         *)

NameLen == 8

\* s.ljust(n)
ljust(s, n) == s \o [i \in 1..(n - Len(s)) |-> " "]

RECURSIVE Join(_, _)
\* sep.join(lines)
Join(lines, sep) ==
    IF lines = <<>> THEN <<>>
    ELSE IF Len(lines) = 1 THEN lines[1]
    ELSE lines[1] \o sep \o Join(Tail(lines), sep)

\* jcl_lines of generate_compile_jcl
JclLines(job_name, pgm_name, source_ds, load_ds) ==
    << <<"//">> \o job_name
           \o <<" JOB (ACCT),'COMPILE',CLASS=A,MSGCLASS=X,MSGLEVEL=(1,1)">>,
       <<"//*  Compile and run COBOL program ">> \o pgm_name,
       <<"//COBRUN  EXEC IGYWCL">>,
       <<"//COBOL.SYSIN  DD DSN=">> \o source_ds \o <<"(">> \o pgm_name
           \o <<"),DISP=SHR">>,
       <<"//LKED.SYSLMOD DD DSN=">> \o load_ds \o <<"(">> \o pgm_name
           \o <<"),DISP=SHR">>,
       <<"//*  Run the compiled program">>,
       <<"//RUN     EXEC PGM=">> \o pgm_name,
       <<"//STEPLIB   DD DSN=">> \o load_ds \o <<",DISP=SHR">>,
       <<"//SYSOUT    DD SYSOUT=*">>,
       <<"//CEEDUMP   DD DUMMY">>,
       <<"//SYSUDUMP  DD DUMMY">> >>

\* generate_compile_jcl with the program name padded like the job name
GenerateProgramPadded(user_id, program_name, source_ds, load_ds) ==
    LET job_name == ljust(Prefix(program_name, NameLen), NameLen)
    IN Join(JclLines(job_name, job_name, source_ds, load_ds), <<CR, LF>>)

\* generate_compile_jcl with the job name not padded
GenerateJobNotPadded(user_id, program_name, source_ds, load_ds) ==
    LET pgm_name == Prefix(program_name, NameLen)
    IN Join(JclLines(pgm_name, pgm_name, source_ds, load_ds), <<CR, LF>>)

\* generate_compile_jcl with a job name made unique by the time of the call
GenerateTimeStamped(user_id, program_name, source_ds, load_ds) ==
    LET job_name == ljust(Prefix(Prefix(program_name, NameLen - 1)
                                 \o Decimal(clock % 10), NameLen), NameLen)
        pgm_name == Prefix(program_name, NameLen)
    IN Join(JclLines(job_name, pgm_name, source_ds, load_ds), <<CR, LF>>)

\* generate_compile_jcl(user_id, program_name, source_ds, load_ds)
generate_compile_jcl(user_id, program_name, source_ds, load_ds) ==
    LET job_name == ljust(Prefix(program_name, NameLen), NameLen)
        pgm_name == Prefix(program_name, NameLen)
    IN Join(JclLines(job_name, pgm_name, source_ds, load_ds), <<CR, LF>>)

MaxNameLen == 9
MaxClock == 2

\* n times the character c
Run(c, n) == [i \in 1..n |-> c]

\* the program names tried: MYPROG, and every name of at most MaxNameLen
\* characters made of As followed by Bs
ProgramNames ==
    {Run("A", p[1]) \o Run("B", p[2]) :
        p \in {q \in (0..MaxNameLen) \X (0..MaxNameLen) : q[1] + q[2] <= MaxNameLen}}
    \cup {ProgramName}
SourceDatasets == {SourceDs, <<"S", ".", "C", "B", "L">>}
LoadDatasets == {<<"Z83570", ".LOAD">>, <<"L">>}

JclIdle == jclOut = <<>>

\* the Compile & Run step that generates the JCL
GenerateJcl ==
    /\ JclIdle
    /\ \E program_name \in ProgramNames, source_ds \in SourceDatasets,
          load_ds \in LoadDatasets :
           /\ jclArgs' = [program_name |-> program_name, source_ds |-> source_ds,
                          load_ds |-> load_ds, user_id |-> UserId]
           /\ jclOut' = generate_compile_jcl(UserId, program_name, source_ds, load_ds)
    /\ UNCHANGED <<jclAgain, clock, cliVars, fieldVars, browserVars, lineVars, dbVars, piVars, submitVars, sessionVars, statusVars>>

\* time passes
Tick ==
    /\ clock < MaxClock
    /\ clock' = clock + 1
    /\ UNCHANGED <<jclArgs, jclOut, jclAgain, cliVars, fieldVars, browserVars, lineVars, dbVars, piVars, submitVars, sessionVars, statusVars>>

\* a second call with the arguments of the first
GenerateAgain ==
    /\ ~JclIdle
    /\ jclAgain = <<>>
    /\ jclAgain' = generate_compile_jcl(jclArgs.user_id, jclArgs.program_name,
                                        jclArgs.source_ds, jclArgs.load_ds)
    /\ UNCHANGED <<jclArgs, jclOut, clock, cliVars, fieldVars, browserVars, lineVars, dbVars, piVars, submitVars, sessionVars, statusVars>>

\* the documents are dropped
JclForget ==
    /\ ~JclIdle
    /\ jclArgs' = IdleJcl
    /\ jclOut' = <<>>
    /\ jclAgain' = <<>>
    /\ UNCHANGED <<clock, cliVars, fieldVars, browserVars, lineVars, dbVars, piVars, submitVars, sessionVars, statusVars>>

JclNext ==
    \/ GenerateJcl
    \/ Tick
    \/ GenerateAgain
    \/ JclForget

JclSpec == FieldInit /\ [][JclNext]_vars

---------------------------------------------------------------------------
(* The dataset browser: get_datasets and get_pds_members behind             *)
(* st.cache_data(ttl=300), the Refresh Datasets button and the Datasets     *)
(* section of main                                                          *)

CacheTtl == 300

\* the entries of function fn under the argument key that have not expired
LiveEntries(c, fn, key, now) ==
    {e \in c : e.fn = fn /\ e.key = key /\ now < e.stored + CacheTtl}

\* a call, at time now, of the decorated function fn with the argument key;
\* r is what the undecorated function does when it runs.  A live entry is
\* returned without running the function; a value returned by the function
\* is stored, an exception is not.
CachedCall(c, fn, key, now, r) ==
    LET live == LiveEntries(c, fn, key, now) IN
    IF live # {}
    THEN [cache |-> c, calls |-> <<>>, ret |-> (CHOOSE e \in live : TRUE).value]
    ELSE IF IsRaise(r.ret)
    THEN [cache |-> c, calls |-> r.calls, ret |-> r.ret]
    ELSE [cache |-> {e \in c : ~(e.fn = fn /\ e.key = key)}
                      \cup {[fn |-> fn, key |-> key, value |-> r.ret, stored |-> now]},
          calls |-> r.calls,
          ret |-> r.ret]

\* fn.clear()
ClearCache(c, fn) == {e \in c : e.fn # fn}

\* the Refresh Datasets handler with get_pds_members.clear() left out
RefreshClearDatasetsOnly(c) == ClearCache(c, "get_datasets")

\* get_datasets.clear(); get_pds_members.clear()
RefreshClear(c) == ClearCache(ClearCache(c, "get_datasets"), "get_pds_members")

RECURSIVE SpawnedIn(_)
\* the child processes started by a sequence of invocations
SpawnedIn(cs) == IF cs = <<>> THEN 0 ELSE Head(cs).spawned + SpawnedIn(Tail(cs))

\* the record of one call of a decorated function
CallEvent(fn, key, now, r) ==
    [kind |-> "call", fn |-> fn, key |-> key, at |-> now,
     invoked |-> Len(r.calls), spawned |-> SpawnedIn(r.calls), ret |-> r.ret]

ClearEvent(now) ==
    [kind |-> "clear", fn |-> "", key |-> PyNone, at |-> now,
     invoked |-> 0, spawned |-> 0, ret |-> PyNone]

Msg(kind, text) == [kind |-> kind, text |-> text]

\* the loop over the datasets, from position i on: the members of each are
\* fetched (the member commands of one render all behave as proc) and shown;
\* an exception ends the render
RECURSIVE ShowMembersFrom(_, _, _, _, _, _)
ShowMembersFrom(acc, datasets, i, now, proc, missing) ==
    IF i > Len(datasets) THEN acc
    ELSE LET dsname == datasets[i]
             m == CachedCall(acc.cache, "get_pds_members", dsname, now,
                             get_pds_members(StrOf(dsname).s, proc))
             members == m.ret
             seen == [cache |-> m.cache,
                      events |-> Append(acc.events,
                                        CallEvent("get_pds_members", dsname, now, m)),
                      shown |-> acc.shown,
                      failed |-> acc.failed \o
                                 SelectSeq(m.calls, LAMBDA inv : IsErrorObject(inv.result))]
         IN IF IsRaise(members)
            THEN [seen EXCEPT !.shown = Append(@, Msg("exception", <<members.e>>))]
            ELSE ShowMembersFrom(
                    [seen EXCEPT !.shown = Append(@,
                        IF Truthy(members)
                        THEN Msg("write", <<"Members (", ToString(Len(members.xs)), "):">>)
                        ELSE Msg("info", missing))],
                    datasets, i + 1, now, proc, missing)

NoMembersFound == <<"No members found (may not be a PDS or dataset is empty).">>

\* the Datasets section of main for the qualifier hlq, at time now, with the
\* cache c: the cache afterwards, the calls of the decorated functions, the
\* messages displayed and the invocations that returned an error
RenderDatasets(c, hlq, now, procD, procM) ==
    LET d == CachedCall(c, "get_datasets", PyStr(hlq), now, get_datasets(hlq, procD))
        datasets == d.ret
        first == [cache |-> d.cache,
                  events |-> <<CallEvent("get_datasets", PyStr(hlq), now, d)>>,
                  shown |-> <<>>,
                  failed |-> SelectSeq(d.calls, LAMBDA inv : IsErrorObject(inv.result))]
    IN IF IsRaise(datasets)
       THEN [first EXCEPT !.shown = <<Msg("exception", <<datasets.e>>)>>]
       ELSE IF datasets.t = "dict" /\ "error" \in DOMAIN datasets.kv
       THEN [first EXCEPT !.shown =
                <<Msg("error", <<"Error retrieving datasets: ">>
                               \o StrOf(datasets.kv["error"]).s)>>]
       ELSE IF ~Truthy(datasets)
       THEN [first EXCEPT !.shown =
                <<Msg("info", <<"No datasets found for ">> \o hlq \o <<".*">>)>>]
       ELSE ShowMembersFrom(
                [first EXCEPT !.shown =
                    <<Msg("success", <<"Found ", ToString(Len(datasets.xs)),
                                       " dataset(s)">>)>>],
                datasets.xs, 1, now, procM, NoMembersFound)

\* the error texts run_zowe_cmd returned for the invocations that failed
Diagnostics(failed) == [i \in DOMAIN failed |-> failed[i].result.kv["error"].s]

Qualifiers == {UserId, <<"SYS1">>}

\* what the list commands of the browser meet: a listing, a failing command,
\* a number in place of the document
ListBehaviours ==
    { [kind |-> "completed", returncode |-> 0, stdout |-> <<DocItems, "\n">>,
       stderr |-> <<>>],
      [kind |-> "completed", returncode |-> 1, stdout |-> <<>>,
       stderr |-> <<"Command Error: ", "z/OSMF REST API Error">>],
      [kind |-> "completed", returncode |-> 0, stdout |-> <<DocNumber, "\n">>,
       stderr |-> <<>>] }

MemberBehaviours ==
    { [kind |-> "completed", returncode |-> 0, stdout |-> <<DocItems, "\n">>,
       stderr |-> <<>>],
      [kind |-> "completed", returncode |-> 1, stdout |-> <<>>,
       stderr |-> <<"Command Error: ", "z/OSMF REST API Error">>] }

MaxRenders == 2
CacheStep == 100
MaxSteps == 3

\* one render of the Datasets section
RenderDatasetsSection ==
    /\ renders < MaxRenders
    /\ \E hlq \in Qualifiers, procD \in ListBehaviours,
          procM \in MemberBehaviours :
           \E r \in {RenderDatasets(cache, hlq, clock, procD, procM)} :
              /\ cache' = r.cache
              /\ events' = events \o r.events
              /\ browser' = [shown |-> r.shown, failed |-> Diagnostics(r.failed)]
    /\ renders' = renders + 1
    /\ UNCHANGED <<cliVars, fieldVars, jclVars, lineVars, dbVars, piVars, submitVars, sessionVars, statusVars>>

\* the Refresh Datasets button: both caches are cleared and st.rerun()
\* renders the section again
RefreshDatasets ==
    /\ renders < MaxRenders
    /\ \E hlq \in Qualifiers, procD \in ListBehaviours,
          procM \in MemberBehaviours :
           \E r \in {RenderDatasets(RefreshClear(cache), hlq, clock, procD, procM)} :
              /\ cache' = r.cache
              /\ events' = Append(events, ClearEvent(clock)) \o r.events
              /\ browser' = [shown |-> r.shown, failed |-> Diagnostics(r.failed)]
    /\ renders' = renders + 1
    /\ UNCHANGED <<cliVars, fieldVars, jclVars, lineVars, dbVars, piVars, submitVars, sessionVars, statusVars>>

\* time passes before a render
Advance ==
    /\ renders < MaxRenders
    /\ clock < MaxSteps * CacheStep
    /\ \E n \in 1..2 : clock' = clock + n * CacheStep
    /\ UNCHANGED <<jclArgs, jclOut, jclAgain, cache, events, renders, browser,
                   cliVars, fieldVars, lineVars, dbVars, piVars, submitVars, sessionVars, statusVars>>

BrowserNext ==
    \/ RenderDatasetsSection
    \/ RefreshDatasets
    \/ Advance

BrowserSpec == FieldInit /\ [][BrowserNext]_vars

---------------------------------------------------------------------------
(* The line-ending transform on its own: every text of at most MaxTextLen  *)
(* characters over a letter, a second letter, CR and LF                     *)

MaxTextLen == 4

TextChars == {"A", "B", CR, LF}

Texts == UNION {[1..n -> TextChars] : n \in 0..MaxTextLen}

\* upload_cobol_to_dataset computes the text to write for content
NormalizeSource ==
    /\ lineDone = 0
    /\ \E content \in Texts :
           /\ lineIn' = content
           /\ lineOut' = ToCRLF(content)
    /\ lineDone' = 1
    /\ UNCHANGED <<lineAgain, cliVars, fieldVars, jclVars, browserVars, dbVars, piVars, submitVars, sessionVars, statusVars>>

\* the text written is uploaded once more
NormalizeAgain ==
    /\ lineDone = 1
    /\ lineAgain' = ToCRLF(lineOut)
    /\ lineDone' = 2
    /\ UNCHANGED <<lineIn, lineOut, cliVars, fieldVars, jclVars, browserVars, dbVars, piVars, submitVars, sessionVars, statusVars>>

\* the editor is cleared
LineForget ==
    /\ lineDone = 2
    /\ lineIn' = <<>>
    /\ lineOut' = <<>>
    /\ lineAgain' = <<>>
    /\ lineDone' = 0
    /\ UNCHANGED <<cliVars, fieldVars, jclVars, browserVars, dbVars, piVars, submitVars, sessionVars, statusVars>>

LineNext ==
    \/ NormalizeSource
    \/ NormalizeAgain
    \/ LineForget

LineSpec == FieldInit /\ [][LineNext]_vars

---------------------------------------------------------------------------
(* The metrics store of pi_enhanced_dashboard.py.  An instant of the wall   *)
(* clock is [sec, micro]; a timestamp is the text isoformat() makes of it,  *)
(* a sequence of characters, which the database compares as text.          *)

\* '%02d' of the seconds, standing for YYYY-MM-DDTHH:MM:SS
TwoDigits(n) == ZeroFill(Decimal(n), 2)

\* datetime.isoformat(): the fraction is left out when the microsecond is 0
isoformat(now) ==
    IF now.micro = 0 THEN TwoDigits(now.sec)
    ELSE TwoDigits(now.sec) \o <<".">> \o ZeroFill(Decimal(now.micro), 6)

\* the place of a character in the collating order of the database (BINARY)
CharRank(c) == IF c = "." THEN 0 ELSE 1 + (CHOOSE d \in 0..9 : Digits[d + 1] = c)

RECURSIVE TextLess(_, _)
\* a < b for two TEXT values
TextLess(a, b) ==
    IF b = <<>> THEN FALSE
    ELSE IF a = <<>> THEN TRUE
    ELSE IF Head(a) = Head(b) THEN TextLess(Tail(a), Tail(b))
    ELSE CharRank(Head(a)) < CharRank(Head(b))

\* init_database(): CREATE TABLE IF NOT EXISTS job_history
init_database(table) == TRUE

\* the row log_job_status inserts at the instant now: AUTOINCREMENT gives it
\* an id above every id handed out before
LogRow(db, job_id, job_name, status, return_code, user_id, now) ==
    [id |-> db.seq + 1, timestamp |-> isoformat(now), job_id |-> job_id,
     job_name |-> job_name, status |-> status,
     return_code |-> StrOf(return_code), user_id |-> PyStr(user_id)]

\* log_job_status(job_id, job_name, status, return_code, user_id)
log_job_status(db, job_id, job_name, status, return_code, user_id, now) ==
    LET row == LogRow(db, job_id, job_name, status, return_code, user_id, now)
    IN [rows |-> Append(db.rows, row), seq |-> row.id]

\* the arguments main passes to log_job_status for a job of the list
LogJob(db, job, user_id, now) ==
    log_job_status(db,
                   ThenOr(PyGet(job, "jobid", PyNone), PyGet(job, "jobId", EmptyStr)),
                   ThenOr(PyGet(job, "jobname", PyNone), PyGet(job, "jobName", EmptyStr)),
                   PyGet(job, "status", EmptyStr),
                   ThenOr(PyGet(job, "retcode", PyNone), PyGet(job, "retCode", EmptyStr)),
                   user_id, now)

\* the columns a SELECT of get_recent_job_history returns of a row
Selected(row) ==
    [timestamp |-> row.timestamp, job_id |-> row.job_id, job_name |-> row.job_name,
     status |-> row.status, return_code |-> row.return_code]

\* the orders ORDER BY timestamp DESC may deliver the rows in: rows with
\* equal timestamps come in whatever order the database chooses
OrdersByTimestampDesc(rs) ==
    {p \in [1..Len(rs) -> 1..Len(rs)] :
        /\ \A i, j \in 1..Len(rs) : i # j => p[i] # p[j]
        /\ \A i, j \in 1..Len(rs) :
              i < j => ~TextLess(rs[p[i]].timestamp, rs[p[j]].timestamp)}

\* LIMIT n: a negative n is no limit
Limited(xs, n) == IF n < 0 \/ n > Len(xs) THEN xs ELSE SubSeq(xs, 1, n)

\* get_recent_job_history(limit) when the database delivers the order p;
\* without a database file the result is the empty list
get_recent_job_history(exists, rs, limit, p) ==
    IF ~exists THEN <<>>
    ELSE Limited([i \in 1..Len(rs) |-> Selected(rs[p[i]])], limit)

MaxRows == 3
MaxSecond == 1

\* the readings of datetime.now(): the wall clock may stand still between
\* two readings or be set back
Instants == [sec : 0..MaxSecond, micro : {0, 1}]

Limits == 0..(MaxRows + 1)

\* main begins with init_database()
InitDatabase ==
    /\ dbTable' = init_database(dbTable)
    /\ dbOp' = "init_database"
    /\ UNCHANGED <<rows, seq, dbLimit, dbRet, cliVars, fieldVars, jclVars,
                   browserVars, lineVars, piVars, submitVars, sessionVars, statusVars>>

\* main logs a job of the list it fetched (main has called init_database)
LogJobStatus ==
    /\ dbTable
    /\ Len(rows) < MaxRows
    /\ \E job \in {Job1, Job2}, now \in Instants :
           LET db == LogJob([rows |-> rows, seq |-> seq], job, UserId, now)
           IN /\ rows' = db.rows
              /\ seq' = db.seq
    /\ dbOp' = "log_job_status"
    /\ UNCHANGED <<dbTable, dbLimit, dbRet, cliVars, fieldVars, jclVars,
                   browserVars, lineVars, piVars, submitVars, sessionVars, statusVars>>

\* View Job History, or the Analytics tab
GetRecentJobHistory ==
    /\ \E limit \in Limits, p \in OrdersByTimestampDesc(rows) :
           /\ dbLimit' = limit
           /\ dbRet' = get_recent_job_history(dbTable, rows, limit, p)
    /\ dbOp' = "get_recent_job_history"
    /\ UNCHANGED <<dbTable, rows, seq, cliVars, fieldVars, jclVars,
                   browserVars, lineVars, piVars, submitVars, sessionVars, statusVars>>

DbNext ==
    \/ InitDatabase
    \/ LogJobStatus
    \/ GetRecentJobHistory

DbSpec == FieldInit /\ [][DbNext]_vars

---------------------------------------------------------------------------
(* The Pi dashboard: one action is one run of the script, from its first   *)
(* line to its last line or to the st.rerun() that ends it                  *)

\* the names the module opsdash_web defines
OpsdashWebNames ==
    {"find_zowe_executable", "run_zowe_cmd", "get_system_info", "get_user_jobs",
     "get_datasets", "get_pds_members", "upload_cobol_to_dataset",
     "submit_jcl_job", "get_job_status", "get_job_spool_files",
     "get_job_spool_file_content", "generate_compile_jcl", "main"}

\* opsdash_web.<name>(): what the call gives, or AttributeError for a name
\* the module does not define
OpsdashWebCall(name, value) ==
    IF name \in OpsdashWebNames THEN value ELSE Raise("AttributeError")

ProbeTimeout == 10

\* check_mainframe_connection(): subprocess.run without a shell and with
\* timeout=10; any exception of the try body gives False
check_mainframe_connection(proc) ==
    LET zowe_exe == OpsdashWebCall("find_zowe_executable", PyStr(find_zowe_executable))
        profile == OpsdashWebCall("get_zowe_profile_name", PyStr(<<"zosmf">>))
        argv == <<zowe_exe.s>>
                \o Words(<<"zosmf", "check", "status", "--zosmf-profile">>)
                \o <<profile.s>>
        result == subprocess_run(argv, FALSE, proc)
    IN IF IsRaise(zowe_exe) \/ IsRaise(profile)
       THEN [spawned |-> 0, timeout |-> ProbeTimeout, ret |-> FALSE]
       ELSE IF result.kind # "completed"
       THEN [spawned |-> IF result.kind = "TimeoutExpired" THEN 1 ELSE 0,
             timeout |-> ProbeTimeout, ret |-> FALSE]
       ELSE [spawned |-> 1, timeout |-> ProbeTimeout, ret |-> result.returncode = 0]

AutoRefreshDelay == 30
SidebarHistory == 10
AnalyticsHistory == 50

\* what a tab or the sidebar shows of a history read
HistoryShown(results) ==
    IF results = <<>> THEN [kind |-> "info", rows |-> <<>>]
    ELSE [kind |-> "rows", rows |-> results]

RECURSIVE LogJobsFrom(_, _, _, _, _)
\* for job in jobs: log_job_status(...), from position i on; nows are the
\* readings of datetime.now(), one for each job
LogJobsFrom(db, jobs, i, user_id, nows) ==
    IF i > Len(jobs) THEN db
    ELSE LogJobsFrom(LogJob(db, jobs[i], user_id, nows[i]), jobs, i + 1, user_id, nows)

\* the jobs main logs: those of the list it shows in the table
JobsToLog(jobs) ==
    IF ~IsRaise(jobs) /\ jobs.t = "list" THEN jobs.xs ELSE <<>>

\* what the status check and the job list command of a run meet
ProbeBehaviours ==
    { [kind |-> "completed", returncode |-> 0, stdout |-> <<>>, stderr |-> <<>>],
      [kind |-> "completed", returncode |-> 1, stdout |-> <<>>,
       stderr |-> <<"Command Error: ", "z/OSMF REST API Error">>],
      [kind |-> "TimeoutExpired", returncode |-> 0, stdout |-> <<>>, stderr |-> <<>>] }

JobBehaviours ==
    { [kind |-> "completed", returncode |-> 0, stdout |-> <<DocJobs, "\n">>,
       stderr |-> <<>>],
      [kind |-> "completed", returncode |-> 1, stdout |-> <<>>,
       stderr |-> <<"Command Error: ", "z/OSMF REST API Error">>] }

\* the values a step of the run can meet: all of them when the run gets to
\* the step, one of them when it does not
Needed(reached, values) ==
    IF reached THEN values ELSE {CHOOSE v \in values : TRUE}

MaxPiRuns == 2

\* the readings of datetime.now() in a run of the script
PiInstants == {now \in Instants : now.micro = 0}

\* what a run shows when it ends in the sidebar or in the Jobs section
EndsEarly(connection, slept, rerun, history, fetched, shown) ==
    [connection |-> connection, slept |-> slept, rerun |-> rerun,
     history |-> history, fetched |-> fetched, panel |-> shown,
     datasets |-> <<>>, analytics |-> NoHistory]

\* the tabs of main, the sidebar done: the Jobs section with its logging, the
\* Refresh Datasets handler or the Datasets section, the Analytics tab
PiTabs(connection, history, refresh) ==
    \E procJ \in JobBehaviours,
       procD \in Needed(~refresh, ListBehaviours),
       procM \in Needed(~refresh, MemberBehaviours) :
    \E j \in {get_user_jobs(UserId, procJ)} :
    \E shown \in {JobPanel(j.ret)} :
    \E tolog \in {IF shown.kind = "table" THEN JobsToLog(j.ret) ELSE <<>>} :
      /\ Len(rows) + Len(tolog) <= MaxRows
      /\ \E nows \in [1..Len(tolog) -> PiInstants] :
         \E db \in {LogJobsFrom([rows |-> rows, seq |-> seq], tolog, 1, UserId, nows)} :
           /\ rows' = db.rows
           /\ seq' = db.seq
           /\ IF shown.kind = "exception"
              THEN /\ pi' = EndsEarly(connection, 0, FALSE, history, Len(j.calls), shown)
                   /\ UNCHANGED <<cache, events, submitVars, sessionVars, statusVars>>
              ELSE IF refresh
              THEN \* the handler clears both caches and st.rerun() ends the run
                   /\ cache' = RefreshClear(cache)
                   /\ events' = Append(events, ClearEvent(clock))
                   /\ pi' = EndsEarly(connection, 0, TRUE, history, Len(j.calls), shown)
              ELSE \E r \in {RenderDatasets(cache, UserId, clock, procD, procM)} :
                   \E p2 \in OrdersByTimestampDesc(db.rows) :
                     /\ cache' = r.cache
                     /\ events' = events \o r.events
                     /\ pi' = [connection |-> connection, slept |-> 0,
                               rerun |-> FALSE, history |-> history,
                               fetched |-> Len(j.calls), panel |-> shown,
                               datasets |-> r.shown,
                               analytics |->
                                 IF r.shown[Len(r.shown)].kind = "exception"
                                 THEN NoHistory
                                 ELSE HistoryShown(get_recent_job_history(
                                        TRUE, db.rows, AnalyticsHistory, p2))]

\* one run of main with the checkbox at auto_refresh, the buttons view
\* (View Job History) and refresh (Refresh Datasets) pressed or not
PiMain(auto_refresh, view, refresh) ==
    /\ piRuns < MaxPiRuns
    /\ piRuns' = piRuns + 1
    /\ autoRefresh' = auto_refresh
    /\ dbTable' = init_database(dbTable)
    /\ \E is_pi \in BOOLEAN :
       \E procC \in Needed(is_pi, ProbeBehaviours) :
       \E check \in {check_mainframe_connection(procC)} :
       \E connection \in {IF ~is_pi THEN "n/a"
                          ELSE IF check.ret THEN "OK" ELSE "FAILED"} :
         /\ probe' = IF is_pi
                     THEN [done |-> TRUE, outcome |-> procC.kind,
                           returncode |-> procC.returncode,
                           spawned |-> check.spawned, timeout |-> check.timeout,
                           ret |-> check.ret]
                     ELSE probe
         /\ IF auto_refresh
            THEN \* time.sleep(30); st.rerun(): the run ends in the sidebar
                 /\ clock' = clock + AutoRefreshDelay
                 /\ pi' = EndsEarly(connection, AutoRefreshDelay, TRUE, NoHistory,
                                    0, NoPanel)
                 /\ UNCHANGED <<rows, seq, cache, events, submitVars, sessionVars, statusVars>>
            ELSE /\ clock' = clock
                 /\ \E p1 \in Needed(view, OrdersByTimestampDesc(rows)) :
                      PiTabs(connection,
                             IF view
                             THEN HistoryShown(get_recent_job_history(
                                      TRUE, rows, SidebarHistory, p1))
                             ELSE NoHistory,
                             refresh)
    /\ UNCHANGED <<platform, install, op, calls, ret, tempFiles, unlinks, panel,
                   fieldVars, jclArgs, jclOut, jclAgain, renders, browser,
                   lineVars, dbOp, dbLimit, dbRet, submitVars, sessionVars, statusVars>>

\* the user sets the checkbox or presses a button: the script runs
PiInteract ==
    /\ ~pi.rerun
    /\ \E auto_refresh \in BOOLEAN, view \in BOOLEAN, refresh \in BOOLEAN :
         /\ auto_refresh # autoRefresh => ~view /\ ~refresh
         /\ ~(view /\ refresh)
         /\ PiMain(auto_refresh, view, refresh)

\* st.rerun(): the script runs again, the widgets as they were
PiRerun ==
    /\ pi.rerun
    /\ PiMain(autoRefresh, FALSE, FALSE)

\* the user clears the checkbox while the script sleeps: the run is dropped
\* and the script runs with the checkbox off
PiUncheck ==
    /\ pi.rerun
    /\ autoRefresh
    /\ PiMain(FALSE, FALSE, FALSE)

PiNext ==
    \/ PiInteract
    \/ PiRerun
    \/ PiUncheck

PiSpec == FieldInit /\ [][PiNext]_vars

---------------------------------------------------------------------------
(* Successive submissions that leave the member name to submit_jcl_job.    *)
(* time.time() is a number of seconds with a fraction: [sec, frac]          *)

\* int(time.time())
IntOfTime(t) == t.sec

MaxSubmits == 2

\* the readings of time.time(): the start of the epoch, instants of one
\* second, instants 10000 seconds apart
SubmitTimes ==
    [sec : {0, 1, 9999, 10000, 1699999999, 1700009999}, frac : {0, 5}]

SubmitBehaviours ==
    { [kind |-> "completed", returncode |-> 0, stdout |-> <<DocSubmit, "\n">>,
       stderr |-> <<>>],
      [kind |-> "completed", returncode |-> 1, stdout |-> <<>>,
       stderr |-> <<"Command Error: ", "z/OSMF REST API Error">>] }

UploadPlace == 6

\* Compile & Run calls submit_jcl_job(jcl_content, user_id): the member the
\* JCL is uploaded to is the one named in the upload command
SubmitUnnamed ==
    /\ Len(submitted) < MaxSubmits
    /\ \E t \in SubmitTimes, content \in Sources,
          proc1 \in SubmitBehaviours, proc2 \in SubmitBehaviours :
         \E r \in {submit_jcl_job(content, UserId, <<>>, IntOfTime(t), FALSE,
                                  proc1, proc2)} :
           submitted' = IF r.calls = <<>> THEN submitted
                        ELSE Append(submitted,
                                    [at |-> t, target |-> r.calls[1].cmd[UploadPlace]])
    /\ UNCHANGED <<cliVars, fieldVars, jclVars, browserVars, lineVars, dbVars, piVars, sessionVars, statusVars>>

\* the session ends; another begins
SubmitForget ==
    /\ submitted # <<>>
    /\ submitted' = <<>>
    /\ UNCHANGED <<cliVars, fieldVars, jclVars, browserVars, lineVars, dbVars, piVars, sessionVars, statusVars>>

SubmitNext ==
    \/ SubmitUnnamed
    \/ SubmitForget

SubmitSpec == FieldInit /\ [][SubmitNext]_vars

---------------------------------------------------------------------------
(* The Editor tab: st.session_state is a function from the keys present to  *)
(* their values; a key is a text                                            *)

\* key in st.session_state
Has(s, k) == k \in DOMAIN s

\* st.session_state[k] = v
Put(s, k, v) == (k :> v) @@ s

\* del st.session_state[k]
Del(s, k) == [x \in DOMAIN s \ {k} |-> s[x]]

\* if k in st.session_state: del st.session_state[k]
Discard(s, k) == IF Has(s, k) THEN Del(s, k) ELSE s

\* the value under k, or Absent
Lookup(s, k) == IF Has(s, k) THEN s[k] ELSE Absent

SuccessKey == <<"cobol_success_msg">>
ErrorKey == <<"cobol_error_msg">>
LastJobKey == <<"last_job_id">>
LastProgramKey == <<"last_program">>
LastJclKey == <<"last_jcl_content">>
LastJclProgramKey == <<"last_jcl_program">>

\* x['error'] of a value that passed the test "error" in x
ErrorOf(x) == IF x.t = "dict" THEN x.kv["error"] ELSE Raise("TypeError")

\* how a handler ends: the session state it leaves, the steps it took, the
\* CLI invocations it made, the exception that ended it and whether it
\* called st.rerun()
Ended(s, steps, cs, raised, rerun) ==
    [session |-> s, steps |-> steps, calls |-> cs, raised |-> raised, rerun |-> rerun]

\* an error banner is stored, or the exception met while making it ends the run
Failed(s, prefix, result, steps, cs) ==
    IF IsRaise(ErrorOf(result))
    THEN Ended(s, steps, cs, ErrorOf(result).e, FALSE)
    ELSE Ended(Put(s, ErrorKey, PyStr(prefix \o StrOf(ErrorOf(result)).s)),
               steps, cs, "", FALSE)

\* submit_result.get("data", {}).get("jobid") or submit_result.get("jobid")
\* or "UNKNOWN"
SubmittedJobId(submit_result) ==
    ThenOr(ThenOr(ThenGet(PyGet(submit_result, "data", EmptyDict), "jobid", PyNone),
                  PyGet(submit_result, "jobid", PyNone)),
           PyStr(<<"UNKNOWN">>))

\* the second step of Compile & Run, the source uploaded: the JCL is
\* generated and stored, submit_jcl_job uploads and submits it
GenerateAndSubmit(s, up, program_name, source_ds, load_ds, user_id, now, diskFull, proc2, proc3) ==
    LET jcl_content == generate_compile_jcl(user_id, program_name, source_ds, load_ds)
        stored == Put(Put(s, LastJclKey, PyStr(jcl_content)),
                      LastJclProgramKey, PyStr(program_name))
        sub == submit_jcl_job(jcl_content, user_id, <<>>, now, diskFull, proc2, proc3)
        steps == <<"upload_source", "generate_jcl">>
                 \o [i \in DOMAIN sub.calls |->
                        IF i = 1 THEN "upload_jcl" ELSE "submit"]
        cs == up.calls \o sub.calls
        job_id == SubmittedJobId(sub.ret)
    IN IF IsRaise(sub.ret) THEN Ended(stored, steps, cs, sub.ret.e, FALSE)
       ELSE IF InErrorRaises(sub.ret) THEN Ended(stored, steps, cs, "TypeError", FALSE)
       ELSE IF InError(sub.ret)
       THEN Failed(stored, <<"Job submission failed: ">>, sub.ret, steps, cs)
       ELSE IF IsRaise(job_id) THEN Ended(stored, steps, cs, job_id.e, FALSE)
       ELSE Ended(Put(Put(Put(stored, SuccessKey,
                              PyStr(<<"Job submitted successfully! Job ID: ">>
                                    \o StrOf(job_id).s)),
                          LastJobKey, job_id),
                      LastProgramKey, PyStr(program_name)),
                  steps, cs, "", TRUE)

\* Compile & Run storing last_job_id and last_program before it looks at the
\* result of submit_jcl_job
CompileAndRunStoringFirst(s, program_name, cobol_code, source_ds, load_ds, user_id, now, diskFull, proc1, proc2, proc3) ==
    LET cleared == Put(Put(Discard(Discard(s, SuccessKey), ErrorKey),
                           LastJobKey, PyStr(<<"UNKNOWN">>)),
                       LastProgramKey, PyStr(program_name))
        up == upload_cobol_to_dataset(source_ds, program_name, cobol_code, diskFull, proc1)
    IN IF program_name = <<>> \/ strip(cobol_code) = <<>>
       THEN Ended(Put(cleared, ErrorKey,
                      PyStr(<<"Please enter a program name and COBOL code.">>)),
                  <<>>, <<>>, "", FALSE)
       ELSE IF IsRaise(up.ret)
       THEN Ended(cleared, <<"upload_source">>, up.calls, up.ret.e, FALSE)
       ELSE IF InErrorRaises(up.ret)
       THEN Ended(cleared, <<"upload_source">>, up.calls, "TypeError", FALSE)
       ELSE IF InError(up.ret)
       THEN Failed(cleared, <<"Upload failed: ">>, up.ret, <<"upload_source">>, up.calls)
       ELSE GenerateAndSubmit(cleared, up, program_name, source_ds, load_ds, user_id,
                              now, diskFull, proc2, proc3)

\* the handler of the Compile & Run button
CompileAndRun(s, program_name, cobol_code, source_ds, load_ds, user_id, now, diskFull, proc1, proc2, proc3) ==
    LET cleared == Discard(Discard(s, SuccessKey), ErrorKey)
        up == upload_cobol_to_dataset(source_ds, program_name, cobol_code, diskFull, proc1)
    IN IF program_name = <<>> \/ strip(cobol_code) = <<>>
       THEN Ended(Put(cleared, ErrorKey,
                      PyStr(<<"Please enter a program name and COBOL code.">>)),
                  <<>>, <<>>, "", FALSE)
       ELSE IF IsRaise(up.ret)
       THEN Ended(cleared, <<"upload_source">>, up.calls, up.ret.e, FALSE)
       ELSE IF InErrorRaises(up.ret)
       THEN Ended(cleared, <<"upload_source">>, up.calls, "TypeError", FALSE)
       ELSE IF InError(up.ret)
       THEN Failed(cleared, <<"Upload failed: ">>, up.ret, <<"upload_source">>, up.calls)
       ELSE GenerateAndSubmit(cleared, up, program_name, source_ds, load_ds, user_id,
                              now, diskFull, proc2, proc3)

\* what the commands of the Editor tab meet: the job accepted, a failing
\* command, a number in place of the document, a document without a job id
EditorBehaviours ==
    { [kind |-> "completed", returncode |-> 0, stdout |-> <<DocSubmit, "\n">>,
       stderr |-> <<>>],
      [kind |-> "completed", returncode |-> 1, stdout |-> <<>>,
       stderr |-> <<"Command Error: ", "z/OSMF REST API Error">>],
      [kind |-> "completed", returncode |-> 0, stdout |-> <<DocNumber, "\n">>,
       stderr |-> <<>>],
      [kind |-> "completed", returncode |-> 0, stdout |-> <<DocSpool, "\n">>,
       stderr |-> <<>>] }

\* the contents of the program name field and of the source text area
EditorNames == {<<>>, ProgramName}
EditorSources == Sources \cup {<<" ", LF>>}

Clicked(kind, r) ==
    [kind |-> kind, steps |-> r.steps, calls |-> r.calls, raised |-> r.raised,
     rerun |-> r.rerun, job_before |-> Lookup(session, LastJobKey),
     program_before |-> Lookup(session, LastProgramKey)]

EditorUnchanged ==
    UNCHANGED <<cliVars, fieldVars, jclVars, browserVars, lineVars, dbVars, piVars,
                submitVars, statusVars>>

\* the user presses Compile & Run
CompileAndRunClick ==
    /\ \E program_name \in EditorNames, cobol_code \in EditorSources,
          now \in Times, diskFull \in BOOLEAN,
          proc1 \in EditorBehaviours, proc2 \in EditorBehaviours,
          proc3 \in EditorBehaviours :
         \E r \in {CompileAndRun(session, program_name, cobol_code, SourceDs,
                                 <<"Z83570", ".LOAD">>, UserId, now, diskFull,
                                 proc1, proc2, proc3)} :
           /\ session' = r.session
           /\ click' = Clicked("compile", r)
    /\ EditorUnchanged

\* the Clear button next to the success banner: shown while the banner is
\* stored
ClearSuccess ==
    /\ Has(session, SuccessKey)
    /\ session' = Del(session, SuccessKey)
    /\ click' = Clicked("clear_success", Ended(session', <<>>, <<>>, "", TRUE))
    /\ EditorUnchanged

\* the Clear button next to the error banner
ClearError ==
    /\ Has(session, ErrorKey)
    /\ session' = Del(session, ErrorKey)
    /\ click' = Clicked("clear_error", Ended(session', <<>>, <<>>, "", TRUE))
    /\ EditorUnchanged

\* the Upload to Mainframe button: the outcome is displayed, nothing is stored
UploadClick ==
    /\ \E program_name \in EditorNames, cobol_code \in EditorSources,
          diskFull \in BOOLEAN, proc1 \in EditorBehaviours :
         \E up \in {upload_cobol_to_dataset(SourceDs, program_name, cobol_code,
                                            diskFull, proc1)} :
           click' = Clicked("upload",
                       IF program_name = <<>> \/ strip(cobol_code) = <<>>
                       THEN Ended(session, <<>>, <<>>, "", FALSE)
                       ELSE Ended(session, <<"upload_source">>, up.calls,
                                  IF IsRaise(up.ret) THEN up.ret.e
                                  ELSE IF InErrorRaises(up.ret) THEN "TypeError"
                                  ELSE "", FALSE))
    /\ UNCHANGED session
    /\ EditorUnchanged

EditorNext ==
    \/ CompileAndRunClick
    \/ ClearSuccess
    \/ ClearError
    \/ UploadClick

EditorSpec == FieldInit /\ [][EditorNext]_vars

---------------------------------------------------------------------------
(* The Job Status tab: one action is one run of the tab, after the user     *)
(* changed the Job ID field or the selection, or pressed one button         *)

ViewingKey == <<"current_viewing_job">>
StatusKey(job_id) == <<"job_status_">> \o job_id
SpoolKey(job_id) == <<"job_spool_">> \o job_id
ContentKey(job_id, spool_id) ==
    <<"spool_content_">> \o job_id \o <<"_">> \o StrOf(spool_id).s

\* the keys of the buttons
CheckButton == <<"check_status_btn">>
LoadButton(job_id, spool_id) == <<"load_">> \o job_id \o <<"_">> \o StrOf(spool_id).s
ReloadButton(job_id, spool_id) == <<"reload_">> \o job_id \o <<"_">> \o StrOf(spool_id).s
ViewButton(job_id, spool_id) == <<"view_">> \o job_id \o <<"_">> \o StrOf(spool_id).s

\* "Clear status if job ID changed": the job viewed is another than the one
\* in the field
JobChanged(s, job_id) == Has(s, ViewingKey) /\ s[ViewingKey] # PyStr(job_id)

\* the stored status and spool list of the job viewed are deleted; the
\* job viewed stays the same
ForgetEarlierJob(s, job_id) ==
    IF JobChanged(s, job_id)
    THEN Discard(Discard(s, StatusKey(s[ViewingKey].s)), SpoolKey(s[ViewingKey].s))
    ELSE s

\* the Check Job Status handler, status being what get_job_status returned
CheckJobStatus(s, job_id, status) ==
    Discard(Put(Put(s, ViewingKey, PyStr(job_id)), StatusKey(job_id), status),
            SpoolKey(job_id))

\* a run of the tab so far: the session state, the messages displayed, the
\* keys of the contents displayed and of the buttons rendered, the content
\* keys stored and deleted, the CLI invocations, the exception that ended it
Raised(t, e) ==
    [t EXCEPT !.shown = Append(@, Msg("exception", <<e>>)), !.raised = TRUE]

\* spool.get('id', spool.get('stepname', '2'))
SpoolIdOf(spool) == PyGet(spool, "id", PyGet(spool, "stepname", PyStr(<<"2">>)))

\* a Load Content or View Selected Spool File handler
LoadContent(t, job_id, spool_id, procC) ==
    LET r == get_job_spool_file_content(job_id, spool_id, procC)
        called == [t EXCEPT !.invoked = @ + Len(r.calls)]
        key == ContentKey(job_id, spool_id)
    IN IF IsRaise(r.ret) THEN Raised(called, r.ret.e)
       ELSE IF InErrorRaises(r.ret) THEN Raised(called, "TypeError")
       ELSE IF InError(r.ret)
       THEN IF IsRaise(ErrorOf(r.ret)) THEN Raised(called, "TypeError")
            ELSE [called EXCEPT !.shown =
                     Append(@, Msg("error", <<"Error: ">> \o StrOf(ErrorOf(r.ret)).s))]
       ELSE [called EXCEPT !.session = Put(@, key, PyGet(r.ret, "content", EmptyStr)),
                           !.stored = @ \cup {key},
                           !.removed = @ \ {key}]

\* one tab of a short spool list: the Load Content button, or the content
\* stored with the Reload button
SpoolTab(t, job_id, spool_id, pressed, procC) ==
    LET key == ContentKey(job_id, spool_id) IN
    IF ~Has(t.session, key)
    THEN LET offered == [t EXCEPT !.buttons = @ \cup {LoadButton(job_id, spool_id)}]
         IN IF pressed = LoadButton(job_id, spool_id)
            THEN LoadContent(offered, job_id, spool_id, procC)
            ELSE offered
    ELSE LET displayed == [t EXCEPT !.contents = @ \cup {key},
                                    !.buttons = @ \cup {ReloadButton(job_id, spool_id)}]
         IN IF pressed = ReloadButton(job_id, spool_id)
            THEN [displayed EXCEPT !.session = Del(@, key),
                                   !.removed = @ \cup {key},
                                   !.stored = @ \ {key}]
            ELSE displayed

RECURSIVE SpoolTabsFrom(_, _, _, _, _, _)
\* for idx, tab in enumerate(tabs), from position idx on
SpoolTabsFrom(t, spool_list, idx, job_id, pressed, procC) ==
    IF idx > Len(spool_list) \/ t.raised THEN t
    ELSE LET spool_id == SpoolIdOf(spool_list[idx]) IN
         IF IsRaise(spool_id) THEN Raised(t, spool_id.e)
         ELSE SpoolTabsFrom(SpoolTab(t, job_id, spool_id, pressed, procC),
                            spool_list, idx + 1, job_id, pressed, procC)

\* a long spool list: the selected file, the View Selected Spool File button,
\* the content stored for the selected file
SpoolSelector(t, spool_list, selection, job_id, pressed, procC) ==
    LET spool_id == SpoolIdOf(spool_list[selection])
        key == ContentKey(job_id, spool_id)
        offered == [t EXCEPT !.buttons = @ \cup {ViewButton(job_id, spool_id)}]
        loaded == IF pressed = ViewButton(job_id, spool_id)
                  THEN LoadContent(offered, job_id, spool_id, procC)
                  ELSE offered
    IN IF IsRaise(spool_id) THEN Raised(t, spool_id.e)
       ELSE IF ~loaded.raised /\ Has(loaded.session, key)
       THEN [loaded EXCEPT !.contents = @ \cup {key}]
       ELSE loaded

TabsLimit == 5

\* "Get and display spool files (use cached if available)"
ShowSpoolFiles(t, job_id, pressed, selection, procL, procC) ==
    LET fetch == ~Has(t.session, SpoolKey(job_id))
        l == get_job_spool_files(job_id, procL)
        spool_files == IF fetch THEN l.ret ELSE t.session[SpoolKey(job_id)]
        kept == IF fetch
                THEN [t EXCEPT !.session = Put(@, SpoolKey(job_id), l.ret),
                               !.invoked = @ + Len(l.calls)]
                ELSE t
        data == PyGet(spool_files, "data", EmptyList)
        spool_list == IF ~IsRaise(data) /\ ~Truthy(data) /\ spool_files.t = "list"
                      THEN spool_files ELSE data
    IN IF InErrorRaises(spool_files) THEN Raised(kept, "TypeError")
       ELSE IF InError(spool_files)
       THEN IF IsRaise(ErrorOf(spool_files)) THEN Raised(kept, "TypeError")
            ELSE [kept EXCEPT !.shown =
                     Append(@, Msg("warning", <<"Could not retrieve spool files: ">>
                                              \o StrOf(ErrorOf(spool_files)).s))]
       ELSE IF IsRaise(spool_list) THEN Raised(kept, spool_list.e)
       ELSE IF ~Truthy(spool_list)
       THEN [kept EXCEPT !.shown =
                Append(@, Msg("info", <<"No spool files found for this job.">>))]
       ELSE IF spool_list.t # "list" THEN Raised(kept, "AttributeError")
       ELSE IF Len(spool_list.xs) <= TabsLimit
       THEN SpoolTabsFrom(kept, spool_list.xs, 1, job_id, pressed, procC)
       ELSE SpoolSelector(kept, spool_list.xs, selection, job_id, pressed, procC)

\* "Display stored status if available"
ShowStatus(t, job_id, pressed, selection, procL, procC) ==
    IF ~Has(t.session, StatusKey(job_id)) THEN t
    ELSE LET status == t.session[StatusKey(job_id)]
             job_data == PyGet(status, "data", status)
         IN IF InErrorRaises(status) THEN Raised(t, "TypeError")
            ELSE IF InError(status)
            THEN IF IsRaise(ErrorOf(status)) THEN Raised(t, "TypeError")
                 ELSE [t EXCEPT !.shown =
                          Append(@, Msg("error", <<"Error: ">> \o StrOf(ErrorOf(status)).s))]
            ELSE IF IsRaise(job_data) THEN Raised(t, job_data.e)
            ELSE ShowSpoolFiles(
                     IF job_data.t = "dict"
                     THEN [t EXCEPT !.shown =
                              Append(@, Msg("metrics", StrOf(StatusJobName(job_data)).s))]
                     ELSE t,
                     job_id, pressed, selection, procL, procC)

\* the Job Status tab, with job_id in the field and the button pressed
JobStatusTab(s, job_id, pressed, selection, procS, procL, procC) ==
    LET forgotten == ForgetEarlierJob(s, job_id)
        check == job_id # <<>> /\ pressed = CheckButton
        st == get_job_status(job_id, procS)
        start == [session |-> IF check THEN CheckJobStatus(forgotten, job_id, st.ret)
                              ELSE forgotten,
                  shown |-> <<>>, contents |-> {},
                  buttons |-> IF job_id # <<>> THEN {CheckButton} ELSE {},
                  stored |-> {}, removed |-> {},
                  invoked |-> IF check THEN Len(st.calls) ELSE 0,
                  raised |-> FALSE]
    IN ShowStatus(start, job_id, pressed, selection, procL, procC)

StatusJobIds == {<<>>, <<"JOB00123">>, <<"JOB00124">>}
Selections == 1..2

StatusBehaviours ==
    { [kind |-> "completed", returncode |-> 0, stdout |-> <<DocSubmit, "\n">>,
       stderr |-> <<>>],
      [kind |-> "completed", returncode |-> 1, stdout |-> <<>>,
       stderr |-> <<"Command Error: ", "z/OSMF REST API Error">>] }

SpoolListBehaviours ==
    { [kind |-> "completed", returncode |-> 0, stdout |-> <<DocSpoolFiles, "\n">>,
       stderr |-> <<>>],
      [kind |-> "completed", returncode |-> 0, stdout |-> <<DocSpoolMany, "\n">>,
       stderr |-> <<>>],
      [kind |-> "completed", returncode |-> 1, stdout |-> <<>>,
       stderr |-> <<"Command Error: ", "z/OSMF REST API Error">>] }

ContentBehaviours ==
    { [kind |-> "completed", returncode |-> 0, stdout |-> <<DocSpool, "\n">>,
       stderr |-> <<>>],
      [kind |-> "completed", returncode |-> 1, stdout |-> <<>>,
       stderr |-> <<"Command Error: ", "z/OSMF REST API Error">>] }

\* the contents that are of the present view of their job once the tab has
\* run: those of a job checked again, or of a job the field has left, are
\* not; a content stored in this run is
StillFresh(f, s, job_id, pressed, t) ==
    LET left == IF JobChanged(s, job_id)
                THEN {x \in f : x.job # s[ViewingKey].s} ELSE f
        checked == IF job_id # <<>> /\ pressed = CheckButton
                   THEN {x \in left : x.job # job_id} ELSE left
    IN {x \in checked : x.key \notin t.removed}
       \cup {[job |-> job_id, key |-> k] : k \in t.stored}

\* the user changes the Job ID field or the selection, or presses a button
\* the last run rendered: the tab runs
JobStatusRun ==
    /\ \E job_id \in StatusJobIds, selection \in Selections :
       \E pressed \in Needed(job_id = statusView.job_id,
                             statusView.buttons \cup {<<>>}) :
       \E procS \in Needed(pressed = CheckButton, StatusBehaviours),
          procL \in SpoolListBehaviours, procC \in ContentBehaviours :
       \E t \in {JobStatusTab(session, job_id,
                              IF job_id = statusView.job_id THEN pressed ELSE <<>>,
                              selection, procS, procL, procC)} :
         /\ session' = t.session
         /\ statusView' = [job_id |-> job_id,
                           pressed |-> IF job_id = statusView.job_id THEN pressed
                                       ELSE <<>>,
                           checked |-> job_id # <<>> /\ job_id = statusView.job_id
                                       /\ pressed = CheckButton,
                           earlier |-> Lookup(session, ViewingKey),
                           shown |-> t.shown, contents |-> t.contents,
                           buttons |-> t.buttons, invoked |-> t.invoked]
         /\ fresh' = StillFresh(fresh, session, job_id,
                                IF job_id = statusView.job_id THEN pressed ELSE <<>>, t)
    /\ UNCHANGED <<cliVars, fieldVars, jclVars, browserVars, lineVars, dbVars, piVars,
                   submitVars, click>>

StatusNext == JobStatusRun

StatusSpec == FieldInit /\ [][StatusNext]_vars

---------------------------------------------------------------------------
(* Properties of the CLI invoker and of the functions built on it *)

\* the stdout of a completed child process is empty or no JSON
MalformedStdout(c) ==
    /\ c.outcome.kind = "completed"
    /\ \/ strip(c.outcome.stdout) = <<>>
       \/ IsRaise(json_loads(strip(c.outcome.stdout)))

ErrorText(x) == x.kv["error"].s

CauseApplies(c) ==
    <<ExecutableMissing,
      c.outcome.kind = "completed" /\ c.outcome.returncode # 0,
      c.outcome.kind = "TimeoutExpired",
      c.outcome.kind = "completed" /\ strip(c.outcome.stdout) = <<>>,
      MalformedStdout(c)>>

\* the error each cause is reported with
ReportedAs(c, n) ==
    CASE n = 1 -> IsSubText(InstallGuidance, ErrorText(c.result))
      [] n = 2 -> ErrorText(c.result) =
                    (IF c.outcome.stderr # <<>> THEN c.outcome.stderr
                     ELSE c.outcome.stdout)
      [] n = 3 -> ErrorText(c.result) = <<"Command timed out">>
      [] n = 4 -> ErrorText(c.result) = <<"Empty response from Zowe CLI">>
      [] n = 5 -> Prefix(ErrorText(c.result), 1) = <<"Invalid JSON: ">>

\* C2: when several failure causes apply to one invocation, the error
\* reported is that of the first in the order executable not found,
\* non-zero exit code, timeout, empty stdout, invalid JSON; stdout is parsed
\* only after a zero exit with a non-empty stdout.
C2_PriorityOrder ==
    \A i \in DOMAIN calls :
        LET c == calls[i]
            applies == CauseApplies(c)
        IN \A n \in 1..5 :
              (applies[n] /\ \A m \in 1..(n - 1) : ~applies[m])
                  => IsErrorObject(c.result) /\ ReportedAs(c, n)

\* C3: whenever the executable cannot be found, on any operating system,
\* run_zowe_cmd returns an error whose message contains the install
\* guidance, and the job panel renders that message as an error.
C3_InstallGuidance ==
    ExecutableMissing =>
        /\ \A i \in DOMAIN calls :
              /\ IsErrorObject(calls[i].result)
              /\ IsSubText(InstallGuidance, ErrorText(calls[i].result))
        /\ op = "main.jobs" =>
              /\ panel.kind = "error"
              /\ IsSubText(InstallGuidance, panel.text)

DomainQueries ==
    {"get_user_jobs", "get_datasets", "get_pds_members", "get_job_status",
     "get_job_spool_files", "get_job_spool_file_content"}

\* C4: a domain query function whose run_zowe_cmd call returned an error
\* object returns that same object to its caller.
C4_ErrorPassedThrough ==
    (op \in DomainQueries /\ IsErrorObject(calls[1].result))
        => ret = calls[1].result

Mutations == {"upload_cobol_to_dataset", "submit_jcl_job"}

\* C6: after upload_cobol_to_dataset or submit_jcl_job has returned or
\* raised, its temporary file no longer exists and was deleted exactly once.
C6_TempFileDeletedOnce ==
    op \in Mutations => tempFiles = {} /\ unlinks = 1

IsUploadCmd(c) == SubSeq(c.cmd, 2, 4) = Words(<<"zos-files", "upload", "file-to-data-set">>)
IsSubmitCmd(c) == SubSeq(c.cmd, 2, 4) = Words(<<"zos-jobs", "submit", "data-set">>)

\* C7: in submit_jcl_job the first command is the upload; when it returns an
\* error no further command runs and that error object is returned; the
\* submit command runs only as the second command, after an upload that
\* returned no error.
C7_SubmitShortCircuits ==
    op = "submit_jcl_job" =>
        /\ Len(calls) <= 2
        /\ \A i \in DOMAIN calls : IsSubmitCmd(calls[i]) <=> i = 2
        /\ \A i \in DOMAIN calls : IsUploadCmd(calls[i]) <=> i = 1
        /\ (calls # <<>> /\ IsErrorObject(calls[1].result))
              => Len(calls) = 1 /\ ret = calls[1].result
        /\ Len(calls) = 2 => ~InError(calls[1].result) /\ ret = calls[2].result

\* an upload that failed with a non-zero exit: one command, its error returned
C7_Witness ==
    /\ op = "submit_jcl_job"
    /\ Len(calls) = 1
    /\ calls[1].outcome.returncode = 1
    /\ IsErrorObject(ret)
    /\ ret = calls[1].result

\* the child process of an invocation could be started
Started(c) == c.outcome.kind \in {"completed", "TimeoutExpired"}

\* the invocation ended in one of the failure outcomes
FailureOutcome(c) ==
    \/ c.outcome.kind = "TimeoutExpired"
    \/ c.outcome.kind = "completed" /\ c.outcome.returncode # 0
    \/ MalformedStdout(c)

\* C12: every run_zowe_cmd call starts at most one child process, exactly
\* one when the executable can be started, and none of the failure outcomes
\* (timeout, non-zero exit, empty or invalid output) makes it start a
\* second one.
C12_OneChildProcessNoRetry ==
    \A i \in DOMAIN calls :
        /\ calls[i].spawned <= 1
        /\ Started(calls[i]) => calls[i].spawned = 1
        /\ FailureOutcome(calls[i]) => calls[i].spawned = 1

\* a command that timed out was started once and reported, not run again
C12_Witness ==
    /\ op = "get_user_jobs"
    /\ Len(calls) = 1
    /\ calls[1].outcome.kind = "TimeoutExpired"
    /\ calls[1].spawned = 1
    /\ ret = ErrorObject(<<"Command timed out">>)

\* the functions that read into the parsed document
ShapeReaders ==
    {"get_user_jobs", "get_datasets", "get_pds_members",
     "get_job_spool_file_content"}

\* the value under "data" of a parsed object (None when there is none)
DataOf(x) == DictGet(x, "data", PyNone)

\* x, the value run_zowe_cmd parsed from stdout, is valid JSON of a shape the
\* function fn does not expect: no object at the top level, or an object
\* whose data is null or of the wrong kind (the job listing expects a list
\* under data, the others an object)
UnexpectedShape(fn, x) ==
    /\ ~IsRaise(x)
    /\ ~IsErrorObject(x)
    /\ \/ x.t # "dict"
       \/ "data" \in DOMAIN x.kv /\ DataOf(x).t = "None"
       \/ "data" \in DOMAIN x.kv /\ fn = "get_user_jobs" /\ DataOf(x).t # "list"
       \/ "data" \in DOMAIN x.kv /\ fn # "get_user_jobs" /\ DataOf(x).t # "dict"

\* C13: when stdout is valid JSON of an unexpected shape, get_user_jobs,
\* get_datasets, get_pds_members and get_job_spool_file_content do not
\* raise: they return an error object, the empty list or, for the spool
\* content, an object.
C13_ShapeValidated ==
    (op \in ShapeReaders /\ calls # <<>> /\ UnexpectedShape(op, calls[1].result))
        => /\ ~IsRaise(ret)
           /\ \/ IsErrorObject(ret)
              \/ ret = EmptyList
              \/ op = "get_job_spool_file_content" /\ ret.t = "dict"

---------------------------------------------------------------------------
(* Properties of the field extraction *)

\* the two spellings of the field the last extraction was about
Spellings ==
    CASE extracted.field = "dataset name" -> <<"dsname", "name">>
      [] extracted.field = "member" -> <<"member", "memberName">>
      [] extracted.field = "job name" -> <<"jobname", "jobName">>
      [] extracted.field = "job id" -> <<"jobid", "jobId">>
      [] extracted.field = "return code" -> <<"retcode", "retCode">>

\* the item carries the text v: under the first spelling alone, under the
\* second alone, or under the second with a null or empty first
Carries(d, v) ==
    LET a == Spellings[1]
        b == Spellings[2]
    IN \/ DOMAIN d.kv = {a} /\ d.kv[a] = v
       \/ DOMAIN d.kv = {b} /\ d.kv[b] = v
       \/ DOMAIN d.kv = {a, b} /\ ~Truthy(d.kv[a]) /\ d.kv[b] = v

\* every place that shows the field shows x (a listing shows the list xs)
Shows(xs, x, statusDefault) ==
    /\ extracted.listing # NotShown => extracted.listing = xs
    /\ extracted.table # NotShown => extracted.table = x
    /\ extracted.status # NotShown => extracted.status = statusDefault

\* C5: a response carrying the value v under either spelling of a field
\* yields v in the listing, in the job table and in the job-status panel,
\* also when the first spelling is present with a null or empty value and
\* the second carries v; when neither spelling is present the default is
\* produced (nothing listed; "" or "-" in the table; N/A in the panel).
C5_SpellingAgnostic ==
    extracted.field # "none" =>
        /\ \A v \in {PyStr(<<"V">>), PyStr(<<"W">>)} :
              Carries(item, v) => Shows(PyList(<<v>>), v, v)
        /\ DOMAIN item.kv = {} =>
              Shows(EmptyList,
                    IF extracted.field = "return code" THEN PyStr(<<"-">>) ELSE EmptyStr,
                    PyStr(<<"N/A">>))

---------------------------------------------------------------------------
(* Properties of the JCL generator *)

RECURSIVE SplitCRLF(_, _)
\* text.split('\r\n'), with the line begun so far
SplitCRLF(s, line) ==
    IF s = <<>> THEN <<line>>
    ELSE IF Len(s) >= 2 /\ s[1] = CR /\ s[2] = LF
    THEN <<line>> \o SplitCRLF(SubSeq(s, 3, Len(s)), <<>>)
    ELSE SplitCRLF(Tail(s), Append(line, Head(s)))

JclDocLines == SplitCRLF(jclOut, <<>>)

\* the part of a line between its leading and its trailing fixed fragment
Inner(line) == SubSeq(line, 2, Len(line) - 1)

\* the part of a line after its leading fixed fragment
Rest(line) == Tail(line)

\* the member name in DSN=dataset(member),DISP=SHR
MemberOf(line) ==
    LET open == CHOOSE i \in DOMAIN line : line[i] = "("
    IN SubSeq(line, open + 1, Len(line) - 1)

JobNamePlace == Inner(JclDocLines[1])

ProgramNamePlaces ==
    { Rest(JclDocLines[2]), MemberOf(JclDocLines[4]), MemberOf(JclDocLines[5]),
      Rest(JclDocLines[7]) }

Spaces(n) == [i \in 1..n |-> " "]

\* the first 8 characters of the name
Truncated(name) == IF Len(name) > NameLen THEN SubSeq(name, 1, NameLen) ELSE name

\* the name filled up with spaces to 8 characters
Padded(name) == name \o Spaces(NameLen - Len(name))

C9_JobCardPadded ==
    (~JclIdle /\ Len(jclArgs.program_name) <= NameLen) =>
        /\ jclOut[1] = "//"
        /\ SubSeq(jclOut, 2, 1 + NameLen) = Padded(jclArgs.program_name)
        /\ SubSeq(JclDocLines[1], 1, 1 + NameLen)
              = <<"//">> \o Padded(jclArgs.program_name)

\* MYPROG appears on the job card followed by two spaces
C9_Witness ==
    /\ jclArgs.program_name = ProgramName
    /\ SubSeq(jclOut, 1, 10)
          = <<"//", "M", "Y", "P", "R", "O", "G", " ", " ",
              " JOB (ACCT),'COMPILE',CLASS=A,MSGCLASS=X,MSGLEVEL=(1,1)">>

\* the fixed fragment each of the 11 lines begins with
LineHeads ==
    <<"//", "//*  Compile and run COBOL program ", "//COBRUN  EXEC IGYWCL",
      "//COBOL.SYSIN  DD DSN=", "//LKED.SYSLMOD DD DSN=",
      "//*  Run the compiled program", "//RUN     EXEC PGM=",
      "//STEPLIB   DD DSN=", "//SYSOUT    DD SYSOUT=*", "//CEEDUMP   DD DUMMY",
      "//SYSUDUMP  DD DUMMY">>

JclLineCount == 11

---------------------------------------------------------------------------
(* Properties of the dataset browser *)

\* the earlier calls of the same function with the same key that ran the
\* function and returned, at most age seconds before call i, with no
\* Refresh Datasets in between
StoredBefore(i, age) ==
    {j \in 1..(i - 1) :
        /\ events[j].kind = "call"
        /\ events[j].fn = events[i].fn
        /\ events[j].key = events[i].key
        /\ events[j].invoked > 0
        /\ ~IsRaise(events[j].ret)
        /\ events[i].at - events[j].at <= age
        /\ \A k \in (j + 1)..(i - 1) : events[k].kind # "clear"}

Latest(js) == CHOOSE j \in js : \A k \in js : k <= j

\* C11: a call of get_datasets or get_pds_members whose key was fetched and
\* stored less than five minutes before, with no refresh since, starts no
\* child process and returns the stored result; a call whose key was never
\* fetched, was fetched more than five minutes before, or was fetched only
\* before the last Refresh Datasets, invokes the CLI.
C11_CachedPerKeyForFiveMinutes ==
    \A i \in DOMAIN events :
        events[i].kind = "call" =>
            /\ StoredBefore(i, CacheTtl - 1) # {} =>
                  /\ events[i].invoked = 0
                  /\ events[i].spawned = 0
                  /\ events[i].ret = events[Latest(StoredBefore(i, CacheTtl - 1))].ret
            /\ StoredBefore(i, CacheTtl) = {} => events[i].invoked = 1

\* 200 seconds after a render for Z83570 a render for SYS1 fetches the
\* datasets of the new qualifier and takes the members of Z83570.SOURCE from
\* the cache
C11_Witness ==
    /\ Len(events) = 6
    /\ events[1].key = PyStr(UserId) /\ events[1].invoked = 1
    /\ events[4].fn = "get_datasets" /\ events[4].key = PyStr(<<"SYS1">>)
    /\ events[4].at = events[1].at + 2 * CacheStep
    /\ events[4].invoked = 1
    /\ events[5].fn = "get_pds_members" /\ events[5].key = events[2].key
    /\ events[5].invoked = 0
    /\ events[5].ret = events[2].ret
    /\ events[2].ret = PyList(<<PyStr(<<"MYPROG">>), PyStr(<<"HELLO">>)>>)

---------------------------------------------------------------------------
(* Properties of the line-ending transform *)

RECURSIVE SplitAny(_, _)
\* the lines of a text in which CRLF, a lone CR and a lone LF each end a
\* line, with the line begun so far
SplitAny(s, line) ==
    IF s = <<>> THEN <<line>>
    ELSE IF Len(s) >= 2 /\ s[1] = CR /\ s[2] = LF
    THEN <<line>> \o SplitAny(SubSeq(s, 3, Len(s)), <<>>)
    ELSE IF s[1] \in {CR, LF}
    THEN <<line>> \o SplitAny(Tail(s), <<>>)
    ELSE SplitAny(Tail(s), Append(line, Head(s)))

\* C14: the text written has a CR only directly before an LF and an LF only
\* directly after a CR; split at its CRLF pairs it gives the lines of the
\* input, as many and with the same contents; and handing the text written
\* to the transform again gives the same text.
C14_LineEndingsBecomeCRLF ==
    lineDone > 0 =>
        /\ \A i \in DOMAIN lineOut :
              /\ lineOut[i] = CR => i < Len(lineOut) /\ lineOut[i + 1] = LF
              /\ lineOut[i] = LF => i > 1 /\ lineOut[i - 1] = CR
        /\ SplitCRLF(lineOut, <<>>) = SplitAny(lineIn, <<>>)
        /\ lineDone = 2 => lineAgain = lineOut

\* a text with an LF, a CRLF and a CR came out with three CRLF pairs, and
\* came out unchanged the second time
C14_Witness ==
    /\ lineIn = <<LF, CR, LF, CR>>
    /\ lineOut = <<CR, LF, CR, LF, CR, LF>>
    /\ lineDone = 2
    /\ lineAgain = lineOut

---------------------------------------------------------------------------
(* Properties of the metrics store *)

\* the k rows inserted last, the one inserted last first
NewestFirst(rs, k) ==
    LET m == IF k < Len(rs) THEN k ELSE Len(rs)
    IN [i \in 1..m |-> Selected(rs[Len(rs) + 1 - i])]

\* C15: what get_recent_job_history(limit) returned is the min(limit, n) rows
\* inserted last of the n rows logged, the one inserted last first, whatever
\* the timestamps the rows were logged with.
C15_NewestInsertionFirst ==
    dbOp = "get_recent_job_history" => dbRet = NewestFirst(rows, dbLimit)

\* C15, the part the reads keep: min(limit, n) rows came back, each of them
\* a logged row, no timestamp before that of the row returned after it
C15_LimitedAndByTimestamp ==
    dbOp = "get_recent_job_history" =>
        /\ Len(dbRet) = (IF dbLimit < Len(rows) THEN dbLimit ELSE Len(rows))
        /\ \A i \in DOMAIN dbRet : \E j \in DOMAIN rows : dbRet[i] = Selected(rows[j])
        /\ \A i \in DOMAIN dbRet :
              i < Len(dbRet) => ~TextLess(dbRet[i].timestamp, dbRet[i + 1].timestamp)

\* what a step of log_job_status does to the table in an append-only history
AppendsOneRow ==
    /\ Len(rows') = Len(rows) + 1
    /\ SubSeq(rows', 1, Len(rows)) = rows
    /\ \A i \in DOMAIN rows :
          /\ rows[i].id < rows'[Len(rows')].id
          /\ ~TextLess(rows'[Len(rows')].timestamp, rows[i].timestamp)

\* C16: a log_job_status adds one row after the rows there are, with an id
\* above theirs and a timestamp not before theirs, and changes none of them;
\* init_database and get_recent_job_history leave the rows as they are.
C16_AppendOnlyHistory ==
    [][IF dbOp' = "log_job_status" THEN AppendsOneRow ELSE rows' = rows]_vars

\* C16, the part the store keeps: the same without the order of timestamps
C16_AppendOnlyIds ==
    [][IF dbOp' = "log_job_status"
       THEN /\ Len(rows') = Len(rows) + 1
            /\ SubSeq(rows', 1, Len(rows)) = rows
            /\ \A i \in DOMAIN rows : rows[i].id < rows'[Len(rows')].id
       ELSE rows' = rows]_vars

---------------------------------------------------------------------------
(* Properties of the Pi dashboard *)

\* C17: a run of the script made with the Auto-refresh checkbox enabled has
\* slept the fixed delay, fetched the job list and rendered the Jobs section
\* before it asks for the next run.
C17_AutoRefreshRendersDashboard ==
    (piRuns > 0 /\ autoRefresh) =>
        /\ pi.slept = AutoRefreshDelay
        /\ pi.rerun
        /\ pi.fetched > 0
        /\ pi.panel.kind # "none"

\* C18: check_mainframe_connection has run the status check with the timeout
\* of 10 seconds, and has returned true exactly when the child process
\* exited with code 0 within it.
C18_ConnectionProbe ==
    probe.done =>
        /\ probe.timeout = ProbeTimeout
        /\ ~ExecutableMissing => probe.spawned = 1
        /\ probe.ret = (/\ ~ExecutableMissing
                        /\ probe.outcome = "completed"
                        /\ probe.returncode = 0)

---------------------------------------------------------------------------
(* Properties of the display of failures *)

\* C19: for every CLI call that failed in the last render of the Datasets
\* section, that render displays an error message carrying the diagnostic
\* text of the call.
C19_FailureShownInSameRender ==
    \A i \in DOMAIN browser.failed :
        \E k \in DOMAIN browser.shown :
            /\ browser.shown[k].kind = "error"
            /\ IsSubText(browser.failed[i], browser.shown[k].text)

---------------------------------------------------------------------------
(* Properties of the generated member name *)

\* the member named in an upload target user_id.JCL(member)
GeneratedName(target) == SubSeq(target, Len(UserId) + 3, Len(target) - 1)

\* C20: every generated member name has at most 8 characters and is TEMP
\* followed by the four decimal digits of the seconds modulo 10000, and two
\* submissions made at different times have different member names.
C20_GeneratedNameUnique ==
    /\ \A i \in DOMAIN submitted :
          LET name == GeneratedName(submitted[i].target) IN
          /\ Len(name) <= MemberNameLen
          /\ SubSeq(name, 1, 4) = <<"T", "E", "M", "P">>
          /\ Len(name) = 4 + TimeDigits
          /\ \E n \in 0..(TimeModulus - 1) :
                /\ n = submitted[i].at.sec % TimeModulus
                /\ SubSeq(name, 5, Len(name)) = ZeroFill(Decimal(n), TimeDigits)
    /\ \A i, j \in DOMAIN submitted :
          submitted[i].at # submitted[j].at =>
              GeneratedName(submitted[i].target) # GeneratedName(submitted[j].target)

\* C20, the part that holds: the length and the form of every generated name
C20_GeneratedNameForm ==
    \A i \in DOMAIN submitted :
        LET name == GeneratedName(submitted[i].target) IN
        /\ Len(name) = MemberNameLen
        /\ SubSeq(name, 1, 4) = <<"T", "E", "M", "P">>
        /\ \A k \in 5..Len(name) : name[k] \in {Digits[d] : d \in DOMAIN Digits}

---------------------------------------------------------------------------
(* Properties of the Editor tab *)

CompileOrder == <<"upload_source", "generate_jcl", "upload_jcl", "submit">>

\* the dataset member an upload or submit command names
TargetOf(c) == IF IsUploadCmd(c) THEN c.cmd[UploadPlace] ELSE c.cmd[UploadPlace - 1]

\* the last Compile & Run did not get to the end of its steps
Unsuccessful ==
    \/ click.raised # ""
    \/ click.steps = <<>>
    \/ \E i \in DOMAIN click.calls : IsErrorObject(click.calls[i].result)

\* C21: the steps of a Compile & Run are a beginning of the order source
\* upload, JCL generation, JCL upload, job submit; a command that returned an
\* error is the last one; the submit command is the third command, after an
\* upload of the source and an upload of the JCL that both returned without
\* error; at most three child processes are started; and when a step failed,
\* last_job_id and last_program are what they were and no success banner is
\* stored.
C21_CompileRunStopsAtFirstFailure ==
    click.kind = "compile" =>
        /\ click.steps = SubSeq(CompileOrder, 1, Len(click.steps))
        /\ Len(click.calls) <= 3
        /\ SpawnedIn(click.calls) <= 3
        /\ \A i \in DOMAIN click.calls :
              /\ IsErrorObject(click.calls[i].result) => i = Len(click.calls)
              /\ IsUploadCmd(click.calls[i]) <=> i \in {1, 2}
              /\ IsSubmitCmd(click.calls[i]) <=> i = 3
        /\ Len(click.calls) >= 1 =>
              TargetOf(click.calls[1]) = SourceDs \o <<"(">> \o ProgramName \o <<")">>
        /\ Len(click.calls) = 3 =>
              /\ ~InError(click.calls[1].result)
              /\ ~InError(click.calls[2].result)
              /\ TargetOf(click.calls[3]) = TargetOf(click.calls[2])
              /\ Has(session, LastJclKey)
        /\ Unsuccessful =>
              /\ Lookup(session, LastJobKey) = click.job_before
              /\ Lookup(session, LastProgramKey) = click.program_before
              /\ ~Has(session, SuccessKey)

\* after a job was submitted, a Compile & Run whose JCL upload failed: two
\* commands, an error banner, the job id of the earlier submission kept
C21_Witness ==
    /\ click.kind = "compile"
    /\ click.steps = <<"upload_source", "generate_jcl", "upload_jcl">>
    /\ Len(click.calls) = 2
    /\ IsErrorObject(click.calls[2].result)
    /\ click.job_before = PyStr(<<"JOB00123">>)
    /\ Lookup(session, LastJobKey) = PyStr(<<"JOB00123">>)
    /\ Has(session, ErrorKey)
    /\ ~Has(session, SuccessKey)

\* C22: the session never holds a success banner and an error banner
\* together, and after a Compile & Run it holds exactly one of the two.
C22_ExactlyOneBanner ==
    /\ ~(Has(session, SuccessKey) /\ Has(session, ErrorKey))
    /\ click.kind = "compile" => (Has(session, SuccessKey) \/ Has(session, ErrorKey))

\* C22, the part that holds: never both banners, and exactly one after a
\* Compile & Run that no exception ended
C22_NeverBothBanners ==
    /\ ~(Has(session, SuccessKey) /\ Has(session, ErrorKey))
    /\ (click.kind = "compile" /\ click.raised = "")
           => (Has(session, SuccessKey) \/ Has(session, ErrorKey))

---------------------------------------------------------------------------
(* Properties of the Job Status tab *)

\* the keys of the spool contents stored in the session
StoredContents(s) == {k \in DOMAIN s : k[1] = "spool_content_"}

\* after a run in which the field named another job than the one viewed, the
\* status and the spool list stored for the job viewed are gone
EarlierStatusRemoved ==
    (statusView.earlier # Absent /\ statusView.earlier # PyStr(statusView.job_id))
        => /\ ~Has(session, StatusKey(statusView.earlier.s))
           /\ ~Has(session, SpoolKey(statusView.earlier.s))

\* a spool content displayed was fetched since the last check of its job
DisplayedContentsFresh ==
    \A k \in statusView.contents : [job |-> statusView.job_id, key |-> k] \in fresh

\* C23: once the job id in the field differs from the job viewed, or Check
\* Job Status is clicked again, nothing of the earlier view is left in the
\* session: its stored status, its stored spool list and its loaded spool
\* contents are removed, and a spool content displayed after a check was
\* fetched after that check.
C23_NoStaleDataOfEarlierView ==
    /\ EarlierStatusRemoved
    /\ \A k \in StoredContents(session) : \E x \in fresh : x.key = k
    /\ DisplayedContentsFresh

====
